---- MODULE Spec2Model ----
(***************************************************************************)
(* The retrieval core of the chat knowledge base                           *)
(* (src/netlify/functions/shared/articleStore.ts): the chunker, the chunk  *)
(* store with its snapshot file, the demo seeder and the retriever.         *)
(*                                                                         *)
(* Strings.  A JavaScript string is modelled by its characters.  The       *)
(* strings the program handles are kept in StringPool, and a string value  *)
(* held in the state (an article's text, a chunk's text, a title, a query) *)
(* is a view [s, lo, hi] of a pool string: the characters lo..hi of        *)
(* StringPool[s].  Chars(v) gives the characters of a view; trim, slice,   *)
(* toLowerCase, includes and split are computed on the characters.         *)
(*                                                                         *)
(* Asynchrony.  An async function runs without interruption up to its next *)
(* await of the embedding service; each such stretch is one action, and    *)
(* the answer of the service (a vector, or a failure) is the action that   *)
(* resumes it.                                                             *)
(***************************************************************************)
EXTENDS Integers, Sequences, FiniteSets, TLC

Max(a, b) == IF a >= b THEN a ELSE b

Min(a, b) == IF a <= b THEN a ELSE b

-----------------------------------------------------------------------------
(* The strings.                                                            *)

DemoAndroidName ==
  <<
    "T", "e", "s", "t", "i", "n", "g", " ", "Y", "o", "u", "r", " ", "A", "n", "d", "r", "o",
    "i", "d", " ", "A", "p", "p"
  >>
DemoAndroidText ==
  <<
    "T", "o", " ", "t", "e", "s", "t", " ", "y", "o", "u", "r", " ", "A", "n", "d", "r", "o",
    "i", "d", " ", "a", "p", "p", " ", "e", "f", "f", "e", "c", "t", "i", "v", "e", "l", "y",
    ",", " ", "s", "t", "a", "r", "t", " ", "b", "y", " ", "u", "s", "i", "n", "g", " ", "A",
    "n", "d", "r", "o", "i", "d", " ", "S", "t", "u", "d", "i", "o", "'", "s", " ", "b", "u",
    "i", "l", "t", "-", "i", "n", " ", "t", "e", "s", "t", "i", "n", "g", " ", "t", "o", "o",
    "l", "s", ".", " ", "F", "o", "r", " ", "u", "n", "i", "t", " ", "t", "e", "s", "t", "i",
    "n", "g", ",", " ", "u", "s", "e", " ", "J", "U", "n", "i", "t", " ", "t", "o", " ", "t",
    "e", "s", "t", " ", "i", "n", "d", "i", "v", "i", "d", "u", "a", "l", " ", "c", "o", "m",
    "p", "o", "n", "e", "n", "t", "s", " ", "a", "n", "d", " ", "b", "u", "s", "i", "n", "e",
    "s", "s", " ", "l", "o", "g", "i", "c", ".", " ", "F", "o", "r", " ", "U", "I", " ", "t",
    "e", "s", "t", "i", "n", "g", ",", " ", "i", "m", "p", "l", "e", "m", "e", "n", "t", " ",
    "E", "s", "p", "r", "e", "s", "s", "o", " ", "t", "e", "s", "t", "s", " ", "t", "o", " ",
    "v", "e", "r", "i", "f", "y", " ", "u", "s", "e", "r", " ", "i", "n", "t", "e", "r", "a",
    "c", "t", "i", "o", "n", "s", " ", "a", "n", "d", " ", "i", "n", "t", "e", "r", "f", "a",
    "c", "e", " ", "b", "e", "h", "a", "v", "i", "o", "r", ".", " ", "A", "l", "w", "a", "y",
    "s", " ", "t", "e", "s", "t", " ", "o", "n", " ", "b", "o", "t", "h", " ", "A", "n", "d",
    "r", "o", "i", "d", " ", "e", "m", "u", "l", "a", "t", "o", "r", "s", " ", "a", "n", "d",
    " ", "p", "h", "y", "s", "i", "c", "a", "l", " ", "d", "e", "v", "i", "c", "e", "s", " ",
    "t", "o", " ", "e", "n", "s", "u", "r", "e", " ", "b", "r", "o", "a", "d", " ", "c", "o",
    "m", "p", "a", "t", "i", "b", "i", "l", "i", "t", "y", " ", "a", "c", "r", "o", "s", "s",
    " ", "d", "i", "f", "f", "e", "r", "e", "n", "t", " ", "A", "n", "d", "r", "o", "i", "d",
    " ", "v", "e", "r", "s", "i", "o", "n", "s", ",", " ", "s", "c", "r", "e", "e", "n", " ",
    "s", "i", "z", "e", "s", ",", " ", "a", "n", "d", " ", "d", "e", "v", "i", "c", "e", " ",
    "c", "o", "n", "f", "i", "g", "u", "r", "a", "t", "i", "o", "n", "s", ".", " ", "C", "o",
    "n", "s", "i", "d", "e", "r", " ", "u", "s", "i", "n", "g", " ", "F", "i", "r", "e", "b",
    "a", "s", "e", " ", "T", "e", "s", "t", " ", "L", "a", "b", " ", "f", "o", "r", " ", "c",
    "o", "m", "p", "r", "e", "h", "e", "n", "s", "i", "v", "e", " ", "d", "e", "v", "i", "c",
    "e", " ", "t", "e", "s", "t", "i", "n", "g", ".", " ", "S", "e", "t", " ", "u", "p", " ",
    "c", "o", "n", "t", "i", "n", "u", "o", "u", "s", " ", "i", "n", "t", "e", "g", "r", "a",
    "t", "i", "o", "n", " ", "t", "o", " ", "r", "u", "n", " ", "t", "e", "s", "t", "s", " ",
    "a", "u", "t", "o", "m", "a", "t", "i", "c", "a", "l", "l", "y", " ", "o", "n", " ", "e",
    "a", "c", "h", " ", "c", "o", "d", "e", " ", "c", "o", "m", "m", "i", "t", "."
  >>
DemoIosName ==
  <<
    "T", "e", "s", "t", "i", "n", "g", " ", "Y", "o", "u", "r", " ", "i", "O", "S", " ", "A",
    "p", "p"
  >>
DemoIosText ==
  <<
    "F", "o", "r", " ", "c", "o", "m", "p", "r", "e", "h", "e", "n", "s", "i", "v", "e", " ",
    "i", "O", "S", " ", "a", "p", "p", " ", "t", "e", "s", "t", "i", "n", "g", ",", " ", "u",
    "t", "i", "l", "i", "z", "e", " ", "X", "c", "o", "d", "e", "'", "s", " ", "i", "n", "t",
    "e", "g", "r", "a", "t", "e", "d", " ", "t", "e", "s", "t", "i", "n", "g", " ", "f", "r",
    "a", "m", "e", "w", "o", "r", "k", ".", " ", "U", "s", "e", " ", "X", "C", "T", "e", "s",
    "t", " ", "f", "o", "r", " ", "u", "n", "i", "t", " ", "t", "e", "s", "t", "i", "n", "g",
    " ", "t", "o", " ", "v", "e", "r", "i", "f", "y", " ", "i", "n", "d", "i", "v", "i", "d",
    "u", "a", "l", " ", "f", "u", "n", "c", "t", "i", "o", "n", "s", " ", "a", "n", "d", " ",
    "c", "l", "a", "s", "s", "e", "s", " ", "w", "o", "r", "k", " ", "c", "o", "r", "r", "e",
    "c", "t", "l", "y", ".", " ", "I", "m", "p", "l", "e", "m", "e", "n", "t", " ", "U", "I",
    " ", "t", "e", "s", "t", "s", " ", "u", "s", "i", "n", "g", " ", "X", "C", "U", "I", "T",
    "e", "s", "t", " ", "t", "o", " ", "a", "u", "t", "o", "m", "a", "t", "e", " ", "u", "s",
    "e", "r", " ", "i", "n", "t", "e", "r", "f", "a", "c", "e", " ", "i", "n", "t", "e", "r",
    "a", "c", "t", "i", "o", "n", "s", " ", "a", "n", "d", " ", "v", "a", "l", "i", "d", "a",
    "t", "e", " ", "a", "p", "p", " ", "f", "l", "o", "w", "s", ".", " ", "T", "e", "s", "t",
    " ", "o", "n", " ", "b", "o", "t", "h", " ", "i", "O", "S", " ", "S", "i", "m", "u", "l",
    "a", "t", "o", "r", " ", "a", "n", "d", " ", "p", "h", "y", "s", "i", "c", "a", "l", " ",
    "d", "e", "v", "i", "c", "e", "s", " ", "t", "o", " ", "e", "n", "s", "u", "r", "e", " ",
    "c", "o", "m", "p", "a", "t", "i", "b", "i", "l", "i", "t", "y", " ", "a", "c", "r", "o",
    "s", "s", " ", "d", "i", "f", "f", "e", "r", "e", "n", "t", " ", "i", "O", "S", " ", "v",
    "e", "r", "s", "i", "o", "n", "s", " ", "a", "n", "d", " ", "d", "e", "v", "i", "c", "e",
    " ", "t", "y", "p", "e", "s", " ", "(", "i", "P", "h", "o", "n", "e", ",", " ", "i", "P",
    "a", "d", ")", ".", " ", "U", "s", "e", " ", "T", "e", "s", "t", "F", "l", "i", "g", "h",
    "t", " ", "f", "o", "r", " ", "b", "e", "t", "a", " ", "t", "e", "s", "t", "i", "n", "g",
    " ", "w", "i", "t", "h", " ", "e", "x", "t", "e", "r", "n", "a", "l", " ", "u", "s", "e",
    "r", "s", " ", "b", "e", "f", "o", "r", "e", " ", "A", "p", "p", " ", "S", "t", "o", "r",
    "e", " ", "s", "u", "b", "m", "i", "s", "s", "i", "o", "n", ".", " ", "C", "o", "n", "f",
    "i", "g", "u", "r", "e", " ", "c", "o", "d", "e", " ", "c", "o", "v", "e", "r", "a", "g",
    "e", " ", "r", "e", "p", "o", "r", "t", "s", " ", "t", "o", " ", "e", "n", "s", "u", "r",
    "e", " ", "a", "d", "e", "q", "u", "a", "t", "e", " ", "t", "e", "s", "t", " ", "c", "o",
    "v", "e", "r", "a", "g", "e", " ", "o", "f", " ", "y", "o", "u", "r", " ", "c", "o", "d",
    "e", "b", "a", "s", "e", "."
  >>
DemoPushName ==
  <<
    "P", "u", "s", "h", " ", "N", "o", "t", "i", "f", "i", "c", "a", "t", "i", "o", "n", "s",
    " ", "S", "e", "t", "u", "p", " ", "G", "u", "i", "d", "e"
  >>
DemoPushText ==
  <<
    "P", "u", "s", "h", " ", "n", "o", "t", "i", "f", "i", "c", "a", "t", "i", "o", "n", "s",
    " ", "e", "n", "a", "b", "l", "e", " ", "r", "e", "a", "l", "-", "t", "i", "m", "e", " ",
    "c", "o", "m", "m", "u", "n", "i", "c", "a", "t", "i", "o", "n", " ", "w", "i", "t", "h",
    " ", "y", "o", "u", "r", " ", "a", "p", "p", " ", "u", "s", "e", "r", "s", ".", " ", "T",
    "o", " ", "i", "m", "p", "l", "e", "m", "e", "n", "t", " ", "p", "u", "s", "h", " ", "n",
    "o", "t", "i", "f", "i", "c", "a", "t", "i", "o", "n", "s", ":", " ", "1", ")", " ", "C",
    "o", "n", "f", "i", "g", "u", "r", "e", " ", "F", "i", "r", "e", "b", "a", "s", "e", " ",
    "C", "l", "o", "u", "d", " ", "M", "e", "s", "s", "a", "g", "i", "n", "g", " ", "(", "F",
    "C", "M", ")", " ", "f", "o", "r", " ", "A", "n", "d", "r", "o", "i", "d", " ", "a", "n",
    "d", " ", "A", "p", "p", "l", "e", " ", "P", "u", "s", "h", " ", "N", "o", "t", "i", "f",
    "i", "c", "a", "t", "i", "o", "n", " ", "s", "e", "r", "v", "i", "c", "e", " ", "(", "A",
    "P", "N", "s", ")", " ", "f", "o", "r", " ", "i", "O", "S", ".", " ", "2", ")", " ", "S",
    "e", "t", " ", "u", "p", " ", "y", "o", "u", "r", " ", "s", "e", "r", "v", "e", "r", " ",
    "b", "a", "c", "k", "e", "n", "d", " ", "t", "o", " ", "s", "e", "n", "d", " ", "n", "o",
    "t", "i", "f", "i", "c", "a", "t", "i", "o", "n", "s", " ", "u", "s", "i", "n", "g", " ",
    "t", "h", "e", " ", "a", "p", "p", "r", "o", "p", "r", "i", "a", "t", "e", " ", "A", "P",
    "I", "s", ".", " ", "3", ")", " ", "I", "m", "p", "l", "e", "m", "e", "n", "t", " ", "n",
    "o", "t", "i", "f", "i", "c", "a", "t", "i", "o", "n", " ", "h", "a", "n", "d", "l", "i",
    "n", "g", " ", "i", "n", " ", "y", "o", "u", "r", " ", "a", "p", "p", " ", "c", "o", "d",
    "e", " ", "t", "o", " ", "r", "e", "c", "e", "i", "v", "e", " ", "a", "n", "d", " ", "d",
    "i", "s", "p", "l", "a", "y", " ", "m", "e", "s", "s", "a", "g", "e", "s", ".", " ", "4",
    ")", " ", "T", "e", "s", "t", " ", "n", "o", "t", "i", "f", "i", "c", "a", "t", "i", "o",
    "n", "s", " ", "t", "h", "o", "r", "o", "u", "g", "h", "l", "y", " ", "o", "n", " ", "b",
    "o", "t", "h", " ", "p", "l", "a", "t", "f", "o", "r", "m", "s", " ", "a", "n", "d", " ",
    "d", "i", "f", "f", "e", "r", "e", "n", "t", " ", "d", "e", "v", "i", "c", "e", " ", "s",
    "t", "a", "t", "e", "s", " ", "(", "f", "o", "r", "e", "g", "r", "o", "u", "n", "d", ",",
    " ", "b", "a", "c", "k", "g", "r", "o", "u", "n", "d", ",", " ", "t", "e", "r", "m", "i",
    "n", "a", "t", "e", "d", ")", ".", " ", "5", ")", " ", "C", "o", "n", "s", "i", "d", "e",
    "r", " ", "n", "o", "t", "i", "f", "i", "c", "a", "t", "i", "o", "n", " ", "c", "a", "t",
    "e", "g", "o", "r", "i", "e", "s", ",", " ", "r", "i", "c", "h", " ", "m", "e", "d", "i",
    "a", " ", "a", "t", "t", "a", "c", "h", "m", "e", "n", "t", "s", ",", " ", "a", "n", "d",
    " ", "d", "e", "e", "p", " ", "l", "i", "n", "k", "i", "n", "g", " ", "f", "o", "r", " ",
    "e", "n", "h", "a", "n", "c", "e", "d", " ", "u", "s", "e", "r", " ", "e", "x", "p", "e",
    "r", "i", "e", "n", "c", "e", "."
  >>

\* Article texts offered to storeArticle: none, blank, one that fits a single
\* segment (with white space around it), and one longer than the size budget.
EmptyText == << >>

BlankText == <<" ", "\n", " ">>

ShortText == <<" ", "R", "e", "s", "e", "t", " ", "i", "t", ".", " ", "T", "a", "p", " ", "O", "K", "\n">>

ShortTextB == <<"P", "u", "s", "h", " ", "a", "p", "p", ".">>

LongTextLen == 3201

LongText ==
  [i \in 1..LongTextLen |->
     IF i % 50 = 0 THEN "." ELSE IF i % 7 = 0 THEN " " ELSE IF i % 331 = 0 THEN "\n" ELSE "a"]

\* Texts offered to chunkText besides these: one with a period right after the
\* smallest window, one with a stretch of blanks longer than a window, and one
\* longer than fifty of the smallest windows.
DotAtCutText == [i \in 1..402 |-> IF i = 401 THEN "." ELSE "a"]

GapText == [i \in 1..1500 |-> IF i > 300 /\ i <= 1200 THEN " " ELSE "a"]

HugeTextLen == 20100

HugeText ==
  [i \in 1..HugeTextLen |->
     IF i % 50 = 0 THEN "." ELSE IF i % 7 = 0 THEN " " ELSE IF i % 331 = 0 THEN "\n" ELSE "a"]

ResetName == <<"R", "e", "s", "e", "t", " ", "G", "u", "i", "d", "e">>

PushName == <<"P", "u", "s", "h", " ", "F", "A", "Q">>

\* Queries offered to searchArticles.
QueryTesting == <<"a", "n", "d", "r", "o", "i", "d", " ", "t", "e", "s", "t", "i", "n", "g">>

QueryPush == <<" ", "P", "u", "s", "h">>

StringPool ==
  [ demoAndroidName |-> DemoAndroidName, demoAndroidText |-> DemoAndroidText,
    demoIosName |-> DemoIosName, demoIosText |-> DemoIosText,
    demoPushName |-> DemoPushName, demoPushText |-> DemoPushText,
    emptyText |-> EmptyText, blankText |-> BlankText,
    shortText |-> ShortText, shortTextB |-> ShortTextB, longText |-> LongText,
    dotAtCutText |-> DotAtCutText, gapText |-> GapText, hugeText |-> HugeText,
    resetName |-> ResetName, pushName |-> PushName,
    queryTesting |-> QueryTesting, queryPush |-> QueryPush, queryEmpty |-> EmptyText ]

\* The whole pool string s as a view.
Str(s) == [s |-> s, lo |-> 1, hi |-> Len(StringPool[s])]

Chars(v) == SubSeq(StringPool[v.s], v.lo, v.hi)

Length(v) == IF v.hi >= v.lo THEN v.hi - v.lo + 1 ELSE 0

\* The character at 0-based index k of a view.
CharAt(v, k) == StringPool[v.s][v.lo + k]

\* The white space String.prototype.trim removes, within the model's alphabet.
WhiteSpace == {" ", "\n", "\t"}

\* The first (last) index in lo..hi of pool string s that holds no white space,
\* or hi + 1 (lo - 1) when there is none; found by halving the range.
RECURSIVE firstInk(_, _, _)
firstInk(s, lo, hi) ==
  IF lo > hi THEN hi + 1
  ELSE IF lo = hi THEN (IF StringPool[s][lo] \in WhiteSpace THEN hi + 1 ELSE lo)
  ELSE LET mid  == (lo + hi) \div 2
           left == firstInk(s, lo, mid)
       IN  IF left <= mid THEN left ELSE firstInk(s, mid + 1, hi)

RECURSIVE lastInk(_, _, _)
lastInk(s, lo, hi) ==
  IF lo > hi THEN lo - 1
  ELSE IF lo = hi THEN (IF StringPool[s][lo] \in WhiteSpace THEN lo - 1 ELSE lo)
  ELSE LET mid   == (lo + hi) \div 2
           right == lastInk(s, mid + 1, hi)
       IN  IF right > mid THEN right ELSE lastInk(s, lo, mid)

\* A trim that removes the leading white space only: what claim C15 would
\* not survive.
trimStartOnly(v) == [s |-> v.s, lo |-> firstInk(v.s, v.lo, v.hi), hi |-> v.hi]

trim(v) ==
  LET lo == firstInk(v.s, v.lo, v.hi)
  IN  [s |-> v.s, lo |-> lo, hi |-> lastInk(v.s, lo, v.hi)]

\* String.prototype.slice(from, to) for 0 <= from, to: the characters at the
\* 0-based indices from..to-1, both ends clamped to the length.
slice(v, from, to) ==
  LET a == Min(from, Length(v))
      b == Min(to, Length(v))
  IN  IF b > a THEN [s |-> v.s, lo |-> v.lo + a, hi |-> v.lo + b - 1]
      ELSE [s |-> v.s, lo |-> v.lo, hi |-> v.lo - 1]

\* String.prototype.lastIndexOf(c, position) for one character c: the largest
\* 0-based index <= position holding c, or -1.
RECURSIVE lastIndexIn(_, _, _, _)
lastIndexIn(v, c, from, to) ==
  IF from > to THEN -1
  ELSE IF from = to THEN (IF CharAt(v, from) = c THEN from ELSE -1)
  ELSE LET mid   == (from + to) \div 2
           right == lastIndexIn(v, c, mid + 1, to)
       IN  IF right >= 0 THEN right ELSE lastIndexIn(v, c, from, mid)

lastIndexOf(v, c, position) == lastIndexIn(v, c, 0, Min(position, Length(v) - 1))

UpperCase == <<"A", "B", "C", "D", "E", "F", "G", "H", "I", "J", "K", "L", "M",
               "N", "O", "P", "Q", "R", "S", "T", "U", "V", "W", "X", "Y", "Z">>

LowerCase == <<"a", "b", "c", "d", "e", "f", "g", "h", "i", "j", "k", "l", "m",
               "n", "o", "p", "q", "r", "s", "t", "u", "v", "w", "x", "y", "z">>

Lower(c) ==
  IF \E k \in 1..26 : UpperCase[k] = c
  THEN LowerCase[CHOOSE k \in 1..26 : UpperCase[k] = c] ELSE c

\* String.prototype.toLowerCase: the characters of the result.
toLowerCase(v) == [k \in 1..Length(v) |-> Lower(CharAt(v, k - 1))]

\* String.prototype.includes on characters; the empty needle is in every string.
includes(hay, needle) ==
  \E k \in 0..(Len(hay) - Len(needle)) : \A j \in 1..Len(needle) : hay[k + j] = needle[j]

\* The first index >= k of cs whose character is (inSpace) or is not white
\* space, or Len(cs) + 1.
NextIndex(cs, k, inSpace) ==
  LET hits == {j \in k..Len(cs) : (cs[j] \in WhiteSpace) = inSpace}
  IN  IF hits = {} THEN Len(cs) + 1 ELSE CHOOSE j \in hits : \A h \in hits : j <= h

\* String.prototype.split(/\s+/): the pieces between the runs of white space;
\* a run at either end leaves an empty piece there, and "" splits into <<"">>.
RECURSIVE splitFrom(_, _)
splitFrom(cs, k) ==
  LET j == NextIndex(cs, k, TRUE)
  IN  IF j > Len(cs) THEN <<SubSeq(cs, k, Len(cs))>>
      ELSE <<SubSeq(cs, k, j - 1)>> \o splitFrom(cs, NextIndex(cs, j, FALSE))

split(cs) == splitFrom(cs, 1)

-----------------------------------------------------------------------------
(* The Chunker: chunkText.  Positions of the walk are kept in fifths of a  *)
(* character (a name ending in 5 is five times the JavaScript number),     *)
(* because overlapChars = maxChars * 0.2 need not be whole; slice and      *)
(* lastIndexOf truncate a fractional position, as Floor5 does.             *)

MinTokens == 100

MaxTokensCap == 2000

CharsPerToken == 4

MaxCharsCap == 8000

MaxChunks == 50

DefaultMaxTokens == 800

DefaultOverlapTokens == 100

Floor5(x5) == x5 \div 5

safeMaxTokens(maxTokens) == Max(MinTokens, Min(maxTokens, MaxTokensCap))

maxChars(maxTokens) == Min(safeMaxTokens(maxTokens) * CharsPerToken, MaxCharsCap)

\* An overlap that moves the next window forward instead of back: what claim
\* C16 would not survive.
overlapCharsForward5(maxTokens, overlapTokens) ==
  0 - Min(overlapTokens * CharsPerToken * 5, maxChars(maxTokens))

\* Math.min(overlapTokens * 4, maxChars * 0.2), in fifths.
overlapChars5(maxTokens, overlapTokens) ==
  Min(overlapTokens * CharsPerToken * 5, maxChars(maxTokens))

\* The end of the window that starts at start5: lines 173-184.
windowEnd5(clean, start5, mc) ==
  LET len5 == Length(clean) * 5
      end5 == Min(start5 + mc * 5, len5)
  IN  IF end5 < len5
      THEN LET lastPeriod  == lastIndexOf(clean, ".", Floor5(end5))
               lastNewline == lastIndexOf(clean, "\n", Floor5(end5))
               breakPoint  == Max(lastPeriod, lastNewline)
           IN  IF breakPoint * 10 > start5 * 2 + mc * 5
               THEN (breakPoint + 1) * 5 ELSE end5
      ELSE end5

\* A walk whose next window starts at end - overlapChars whatever that is,
\* without the step of at least one character: what claim C18 would not
\* survive.
RECURSIVE chunkWalkNoStep(_, _, _, _, _, _)
chunkWalkNoStep(clean, mc, ov5, start5, n, acc) ==
  IF ~(start5 < Length(clean) * 5 /\ n < MaxChunks) THEN acc
  ELSE LET end5  == windowEnd5(clean, start5, mc)
           chunk == trim(slice(clean, Floor5(start5), Floor5(end5)))
           kept  == Length(chunk) > 0
           next5 == end5 - ov5
           acc2  == Append(acc, [start5 |-> start5, end5 |-> end5, chunk |-> chunk,
                                 kept |-> kept])
       IN  IF next5 >= Length(clean) * 5 THEN acc2
           ELSE chunkWalkNoStep(clean, mc, ov5, next5, IF kept THEN n + 1 ELSE n, acc2)

\* A walk whose cap lets one more segment through (n <= 50 for n < 50): what
\* claim C19 would not survive.
RECURSIVE chunkWalkCapOneLater(_, _, _, _, _, _)
chunkWalkCapOneLater(clean, mc, ov5, start5, n, acc) ==
  IF ~(start5 < Length(clean) * 5 /\ n <= MaxChunks) THEN acc
  ELSE LET end5  == windowEnd5(clean, start5, mc)
           chunk == trim(slice(clean, Floor5(start5), Floor5(end5)))
           kept  == Length(chunk) > 0
           next5 == Max(end5 - ov5, start5 + 5)
           acc2  == Append(acc, [start5 |-> start5, end5 |-> end5, chunk |-> chunk,
                                 kept |-> kept])
       IN  IF next5 >= Length(clean) * 5 THEN acc2
           ELSE chunkWalkCapOneLater(clean, mc, ov5, next5, IF kept THEN n + 1 ELSE n, acc2)

\* The while loop of lines 172-197: the windows walked, in order, each with the
\* trimmed segment it yields; n counts the segments pushed so far.
RECURSIVE chunkWalk(_, _, _, _, _, _)
chunkWalk(clean, mc, ov5, start5, n, acc) ==
  IF ~(start5 < Length(clean) * 5 /\ n < MaxChunks) THEN acc
  ELSE LET end5  == windowEnd5(clean, start5, mc)
           chunk == trim(slice(clean, Floor5(start5), Floor5(end5)))
           kept  == Length(chunk) > 0
           next5 == Max(end5 - ov5, start5 + 5)
           acc2  == Append(acc, [start5 |-> start5, end5 |-> end5, chunk |-> chunk,
                                 kept |-> kept])
       IN  IF next5 >= Length(clean) * 5 THEN acc2
           ELSE chunkWalk(clean, mc, ov5, next5, IF kept THEN n + 1 ELSE n, acc2)

chunkWindows(text, maxTokens, overlapTokens) ==
  chunkWalk(trim(text), maxChars(maxTokens), overlapChars5(maxTokens, overlapTokens),
            0, 0, << >>)

chunkText(text, maxTokens, overlapTokens) ==
  LET cleanText == trim(text)
  IN  IF Length(text) = 0 \/ Length(cleanText) = 0 THEN << >>
      ELSE IF Length(cleanText) <= maxChars(maxTokens) THEN <<cleanText>>
      ELSE LET w    == chunkWindows(text, maxTokens, overlapTokens)
               kept == SelectSeq(w, LAMBDA x : x.kept)
           IN  [k \in 1..Len(kept) |-> kept[k].chunk]

-----------------------------------------------------------------------------
(* The data model: lines 3-25, 31.                                         *)

\* Identifiers are strings that the program concatenates: their characters.
A1 == <<"a", "1">>

A2 == <<"a", "2">>

DemoAndroidId == <<"d", "e", "m", "o", "_", "a", "n", "d", "r", "o", "i", "d">>

DemoAndroidChunkId ==
  <<"d", "e", "m", "o", "_", "a", "n", "d", "r", "o", "i", "d", "_", "c", "h", "u", "n", "k", "_", "0">>

DemoIosId == <<"d", "e", "m", "o", "_", "i", "o", "s">>

DemoIosChunkId ==
  <<"d", "e", "m", "o", "_", "i", "o", "s", "_", "c", "h", "u", "n", "k", "_", "0">>

DemoPushId == <<"d", "e", "m", "o", "_", "p", "u", "s", "h">>

DemoPushChunkId ==
  <<"d", "e", "m", "o", "_", "p", "u", "s", "h", "_", "c", "h", "u", "n", "k", "_", "0">>

Digit(d) == <<"0", "1", "2", "3", "4", "5", "6", "7", "8", "9">>[d + 1]

\* The decimal digits of a number between 0 and 99, as `${i}` prints them.
Decimal(n) == IF n < 10 THEN <<Digit(n)>> ELSE <<Digit(n \div 10), Digit(n % 10)>>

\* `${article.id}_chunk_${i}`: line 248.
ChunkId(articleId, i) == articleId \o <<"_", "c", "h", "u", "n", "k", "_">> \o Decimal(i)

\* An ArticleChunk; the optional embedding is a field the record has or lacks.
Chunk(id, articleId, articleName, text, url, lastModified, chunkIndex) ==
  [id |-> id, articleId |-> articleId, articleName |-> articleName, text |-> text,
   url |-> url, lastModified |-> lastModified, chunkIndex |-> chunkIndex]

WithEmbedding(chunk, embedding) ==
  [f \in DOMAIN chunk \cup {"embedding"} |->
     IF f = "embedding" THEN embedding ELSE chunk[f]]

\* The truth value of chunk.embedding.
HasEmbedding(chunk) == "embedding" \in DOMAIN chunk

Article(id, name, text, url, lastModified) ==
  [id |-> id, name |-> name, text |-> text, url |-> url, lastModified |-> lastModified,
   chunks |-> << >>]

\* The articles offered to storeArticle: two versions of article a1 (one
\* segment, then many), a1 with blank text, a2, and a2 with no text.
ArticleA1v1 == Article(A1, Str("resetName"), Str("shortText"), "https://kb/a1", "2024-01-01")

ArticleA1v1b == Article(A1, Str("resetName"), Str("shortTextB"), "https://kb/a1", "2024-01-15")

ArticleA1v2 == Article(A1, Str("resetName"), Str("longText"), "https://kb/a1", "2024-02-02")

ArticleA1Blank == Article(A1, Str("resetName"), Str("blankText"), "https://kb/a1", "2024-03-03")

ArticleA2 == Article(A2, Str("pushName"), Str("shortTextB"), "https://kb/a2", "2024-01-01")

ArticleA2Empty == Article(A2, Str("pushName"), Str("emptyText"), "https://kb/a2", "2024-03-03")

Articles ==
  {ArticleA1v1, ArticleA1v1b, ArticleA1v2, ArticleA1Blank, ArticleA2, ArticleA2Empty}

ArticleIds == {a.id : a \in Articles}

\* Two articles as ingest.ts line 175 builds them for documents without a
\* public URL: their url is the empty string.
ArticleNoUrl1 == Article(A1, Str("resetName"), Str("shortText"), "", "2024-01-01")

ArticleNoUrl2 == Article(A2, Str("pushName"), Str("shortTextB"), "", "2024-01-01")

\* The articles ingested before a chat request.
ChatArticles == {ArticleA1v1, ArticleA2, ArticleNoUrl1, ArticleNoUrl2}

\* The embedding service's answer for a text: a vector fixed by the text.
Embedding(text) == <<1 + (Length(text) % 3), 1 + 4 * (text.lo % 2)>>

\* The segment indices at which an embedding call of storeArticle may fail.
FailableSegments == {0, 1, MaxChunks - 1}

StoreCallers == {"s1", "s2"}

Searchers == {"q1"}

\* createDemoChunks runs that can be under way at once.
SeederRuns == {"d1", "d2"}

\* The queries offered to searchArticles, and the largest limit.
Queries == {Str("queryTesting"), Str("queryEmpty")}

MaxLimit == 1

\* The calls (storeArticle, searchArticles, clearArticles) made in one run.
MaxCalls == 2

\* chunkText(article.text) of line 233, for each article offered.
TextChunks ==
  [a \in Articles \cup ChatArticles |->
     chunkText(a.text, DefaultMaxTokens, DefaultOverlapTokens)]

\* The chat UI after its first render (src/src/App.tsx, lines 19-21): no
\* message, an empty input, not loading; and no request in flight.
AppStart ==
  [messages |-> << >>, inputText |-> Str("emptyText"), isLoading |-> FALSE,
   requests |-> << >>, started |-> 0]

VARIABLES
  articleStore,    \* the article index: article id -> Article (line 24)
  articleChunks,   \* the chunk collection, in store order (line 25)
  storageFile,     \* STORAGE_FILE: whether it exists, and the chunks written to it
  tmpWritable,     \* whether the deployment lets the process write under /tmp
  storeCalls,      \* per caller, the storeArticle call it runs or ran last
  searchCalls,     \* per caller, the searchArticles call it runs or ran last
  seeders,         \* per run of createDemoChunks, where it stands
  calls,           \* the number of calls made so far
  chunker,         \* a chunkText call on its own: its arguments and what it returns
  chat,            \* the chat handler's request: where it stands, and its response
  app              \* the chat UI: its React state and the requests it has in flight

vars == <<articleStore, articleChunks, storageFile, tmpWritable, storeCalls, searchCalls,
          seeders, calls, chunker, chat, app>>

storeVars == <<articleStore, articleChunks, storageFile>>

IdleCall == [pc |-> "idle"]

NoFile == [exists |-> FALSE]

Init ==
  /\ articleStore = << >>
  /\ articleChunks = << >>
  /\ storageFile = NoFile
  /\ tmpWritable \in BOOLEAN
  /\ storeCalls = [p \in StoreCallers |-> IdleCall]
  /\ searchCalls = [q \in Searchers |-> IdleCall]
  /\ seeders = [d \in SeederRuns |-> IdleCall]
  /\ calls = 0
  /\ chunker = IdleCall
  /\ chat = IdleCall
  /\ app = AppStart

-----------------------------------------------------------------------------
(* Persistence: lines 34-81.                                               *)

\* JSON.stringify of the chunk array (line 69): an array of objects, each the
\* key/value pairs of the fields the chunk has.  A chunk without an embedding
\* is written without that key.  Strings, whole numbers and arrays of numbers
\* are written and read back as they are.
JSONstringify(chunks) ==
  [k \in 1..Len(chunks) |-> {<<f, chunks[k][f]>> : f \in DOMAIN chunks[k]}]

\* JSON.parse (line 40): each object becomes a chunk with the keys written.
JSONparse(data) ==
  [k \in 1..Len(data) |->
     [f \in {kv[1] : kv \in data[k]} |-> (CHOOSE kv \in data[k] : kv[1] = f)[2]]]

\* saveChunksToFile, lines 67-81: the file after the call.  Where /tmp is not
\* writable the write throws, is caught and leaves the file as it was.
saveChunksToFile(chunks) ==
  IF tmpWritable THEN [exists |-> TRUE, data |-> JSONstringify(chunks)] ELSE storageFile

-----------------------------------------------------------------------------
(* storeArticle: lines 222-274.                                            *)

ValidText(text) == Length(text) > 0 /\ Length(trim(text)) > 0

\* A line 230 that removes only the article's first chunk: what claim C3 would
\* not survive.
RemoveFirstOnly(chunks, articleId) ==
  IF \E k \in 1..Len(chunks) : chunks[k].articleId = articleId
  THEN [k \in 1..(Len(chunks) - 1) |->
          IF \E j \in 1..k : chunks[j].articleId = articleId THEN chunks[k + 1] ELSE chunks[k]]
  ELSE chunks

\* A line 230 that removes nothing: what claim C2 would not survive.
RemoveNothing(chunks, articleId) == chunks

\* Line 230.
RemoveArticle(chunks, articleId) == SelectSeq(chunks, LAMBDA c : c.articleId # articleId)

\* A storeArticle that clears the article's chunks before it validates the
\* text: what claim C9 would not survive.
storeArticleEntryClearsFirst(article) ==
  [threw |-> ~ValidText(article.text),
   articleChunks |-> RemoveArticle(articleChunks, article.id)]

\* Lines 223-230: whether validation throws, and the chunk collection after it.
storeArticleEntry(article) ==
  IF ~ValidText(article.text)
  THEN [threw |-> TRUE, articleChunks |-> articleChunks]
  ELSE [threw |-> FALSE, articleChunks |-> RemoveArticle(articleChunks, article.id)]

\* Lines 222-245: the call up to its first embedding request.  The call's
\* record keeps, besides the locals of the code, what the call did: how many
\* chunks line 230 removed, and the segments whose failure line 261 logged.
storeArticle(p, article) ==
  LET entry      == storeArticleEntry(article)
      textChunks == TextChunks[article]
      removed    == Len(articleChunks) - Len(entry.articleChunks)
  IN  /\ storeCalls[p].pc # "embedding"
      /\ articleChunks' = entry.articleChunks
      /\ storeCalls' = [storeCalls EXCEPT ![p] =
           IF entry.threw THEN [pc |-> "threw", article |-> article]
           ELSE IF Len(textChunks) = 0
           THEN [pc |-> "returned", article |-> article, textChunks |-> textChunks,
                 i |-> 0, chunks |-> << >>, removed |-> removed, failed |-> {}]
           ELSE [pc |-> "embedding", article |-> article, textChunks |-> textChunks,
                 i |-> 0, chunks |-> << >>, removed |-> removed, failed |-> {}]]
      /\ UNCHANGED <<articleStore, storageFile, tmpWritable, searchCalls, seeders>>

\* Lines 247-256.
NewChunk(article, i, chunkTxt, embedding) ==
  WithEmbedding(Chunk(ChunkId(article.id, i), article.id, article.name, chunkTxt,
                      article.url, article.lastModified, i), embedding)

\* A storeArticle that lets a failed write of the snapshot end the call with
\* the error: what claim C11 would not survive.
storeArticleNextSaveThrows(p, chunks, allChunks, failed) ==
  LET call == storeCalls[p]
  IN  IF call.i + 1 < Len(call.textChunks)
      THEN /\ storeCalls' = [storeCalls EXCEPT ![p].i = call.i + 1, ![p].chunks = chunks,
                                              ![p].failed = failed]
           /\ articleChunks' = allChunks
           /\ UNCHANGED <<articleStore, storageFile>>
      ELSE /\ storeCalls' = [storeCalls EXCEPT
                               ![p].pc = IF tmpWritable THEN "returned" ELSE "threw",
                               ![p].i = call.i + 1,
                               ![p].chunks = chunks, ![p].failed = failed,
                               ![p].article.chunks = chunks]
           /\ articleChunks' = allChunks
           /\ articleStore' =
                [id \in DOMAIN articleStore \cup {call.article.id} |->
                   IF id = call.article.id THEN [call.article EXCEPT !.chunks = chunks]
                   ELSE articleStore[id]]
           /\ storageFile' = saveChunksToFile(allChunks)

\* The rest of the stretch after segment i is dealt with: the next request
\* (line 241-245), or after the last segment lines 265-269.
storeArticleNext(p, chunks, allChunks, failed) ==
  LET call == storeCalls[p]
  IN  IF call.i + 1 < Len(call.textChunks)
      THEN /\ storeCalls' = [storeCalls EXCEPT ![p].i = call.i + 1, ![p].chunks = chunks,
                                              ![p].failed = failed]
           /\ articleChunks' = allChunks
           /\ UNCHANGED <<articleStore, storageFile>>
      ELSE /\ storeCalls' = [storeCalls EXCEPT ![p].pc = "returned", ![p].i = call.i + 1,
                                              ![p].chunks = chunks, ![p].failed = failed,
                                              ![p].article.chunks = chunks]
           /\ articleChunks' = allChunks
           /\ articleStore' =
                [id \in DOMAIN articleStore \cup {call.article.id} |->
                   IF id = call.article.id THEN [call.article EXCEPT !.chunks = chunks]
                   ELSE articleStore[id]]
           /\ storageFile' = saveChunksToFile(allChunks)

\* The embedding of segment i arrives: lines 245-259.
storeEmbedded(p) ==
  LET call  == storeCalls[p]
      chunk == NewChunk(call.article, call.i, call.textChunks[call.i + 1],
                        Embedding(call.textChunks[call.i + 1]))
  IN  /\ call.pc = "embedding"
      /\ storeArticleNext(p, Append(call.chunks, chunk), Append(articleChunks, chunk), call.failed)
      /\ UNCHANGED <<tmpWritable, searchCalls, seeders>>

\* A storeArticle whose failed embedding call ends the call with the error:
\* what claim C10 would not survive.
storeEmbedFailedAborts(p) ==
  /\ storeCalls[p].pc = "embedding"
  /\ storeCalls[p].i \in FailableSegments
  /\ storeCalls' = [storeCalls EXCEPT ![p].pc = "threw"]
  /\ UNCHANGED <<articleStore, articleChunks, storageFile, tmpWritable, searchCalls, seeders>>

\* A storeArticle that asks again for the embedding of a segment whose call
\* failed: what claim C24 would not survive.
storeEmbedFailedRetries(p) ==
  /\ storeCalls[p].pc = "embedding"
  /\ storeCalls[p].i \in FailableSegments
  /\ storeCalls[p].i \notin storeCalls[p].failed
  /\ storeCalls' = [storeCalls EXCEPT ![p].failed = @ \cup {storeCalls[p].i}]
  /\ UNCHANGED <<articleStore, articleChunks, storageFile, tmpWritable, searchCalls, seeders>>

\* The embedding call of segment i fails: lines 260-262.
storeEmbedFailed(p) ==
  LET call == storeCalls[p]
  IN  /\ call.pc = "embedding"
      /\ call.i \in FailableSegments
      /\ storeArticleNext(p, call.chunks, articleChunks, call.failed \cup {call.i})
      /\ UNCHANGED <<tmpWritable, searchCalls, seeders>>

-----------------------------------------------------------------------------
(* loadChunksFromFile: lines 34-64.                                        *)

\* The chunk collection after the call.  readOk: whether reading and parsing the
\* file succeed; a failure is caught and changes nothing, as does a file that
\* holds no chunk.
loadChunksFromFile(readOk) ==
  IF storageFile.exists /\ readOk /\ Len(JSONparse(storageFile.data)) > 0
  THEN JSONparse(storageFile.data)
  ELSE articleChunks

-----------------------------------------------------------------------------
(* The Demo Seeder, createDemoChunks: lines 84-138.                        *)

\* new Date().toISOString() of lines 95, 104, 113.
Now == "now"

\* Lines 88-116.
demoChunks ==
  << Chunk(DemoAndroidChunkId, DemoAndroidId, Str("demoAndroidName"), Str("demoAndroidText"),
           "https://support.aloompa.com/article/591-testing-your-android-app", Now, 0),
     Chunk(DemoIosChunkId, DemoIosId, Str("demoIosName"), Str("demoIosText"),
           "https://support.aloompa.com/article/590-testing-your-ios-app", Now, 0),
     Chunk(DemoPushChunkId, DemoPushId, Str("demoPushName"), Str("demoPushText"),
           "https://support.aloompa.com/collection/24-festapp-cms", Now, 0) >>

\* Lines 85-122: a run starts and requests the first embedding.  The run's
\* record keeps the demo chunks whose failure line 127 logged.
createDemoChunks == [pc |-> "embedding", k |-> 0, failed |-> {}]

\* After demo chunk k is pushed: the next request, or the end of the run.
seederNext(d, failed) ==
  IF seeders[d].k + 1 < Len(demoChunks)
  THEN [seeders EXCEPT ![d].k = seeders[d].k + 1, ![d].failed = failed]
  ELSE [seeders EXCEPT ![d] = IdleCall]

\* A seeder that drops a demo chunk whose embedding call failed: what claim
\* C12 would not survive.
seedEmbedFailedDrops(d) ==
  /\ seeders[d].pc = "embedding"
  /\ seeders' = seederNext(d, seeders[d].failed \cup {seeders[d].k})
  /\ UNCHANGED <<articleStore, articleChunks, storageFile, tmpWritable, storeCalls,
                 searchCalls>>

\* Lines 122-125: the embedding arrives, and the chunk is pushed with it.
seedEmbedded(d) ==
  /\ seeders[d].pc = "embedding"
  /\ articleChunks' =
       Append(articleChunks, WithEmbedding(demoChunks[seeders[d].k + 1],
                                           Embedding(demoChunks[seeders[d].k + 1].text)))
  /\ seeders' = seederNext(d, seeders[d].failed)
  /\ UNCHANGED <<articleStore, storageFile, tmpWritable, storeCalls, searchCalls>>

\* Lines 126-131: the embedding call fails, and the chunk is pushed without one.
seedEmbedFailed(d) ==
  /\ seeders[d].pc = "embedding"
  /\ articleChunks' = Append(articleChunks, demoChunks[seeders[d].k + 1])
  /\ seeders' = seederNext(d, seeders[d].failed \cup {seeders[d].k})
  /\ UNCHANGED <<articleStore, storageFile, tmpWritable, storeCalls, searchCalls>>

-----------------------------------------------------------------------------
(* The Retriever, searchArticles: lines 276-367.                           *)

Only(S) == CHOOSE v \in S : TRUE

RECURSIVE SumTo(_, _)
SumTo(f, n) == IF n = 0 THEN 0 ELSE f[n] + SumTo(f, n - 1)

\* cosineSimilarity, lines 279-287.  The similarity is the real number
\* dot / sqrt(magA2 * magB2), or 0 when a magnitude is 0; it is kept as these
\* whole numbers and compared exactly.
cosineSimilarity(a, b) ==
  [dot   |-> SumTo([i \in 1..Len(a) |-> a[i] * b[i]], Len(a)),
   magA2 |-> SumTo([i \in 1..Len(a) |-> a[i] * a[i]], Len(a)),
   magB2 |-> SumTo([i \in 1..Len(b) |-> b[i] * b[i]], Len(b))]

SimNum(x) == IF x.magA2 = 0 \/ x.magB2 = 0 THEN 0 ELSE x.dot

SimDen2(x) == IF x.magA2 = 0 \/ x.magB2 = 0 THEN 1 ELSE x.magA2 * x.magB2

\* x > y for two similarities.
SimGreater(x, y) ==
  IF SimNum(x) >= 0 /\ SimNum(y) < 0 THEN TRUE
  ELSE IF SimNum(x) < 0 /\ SimNum(y) >= 0 THEN FALSE
  ELSE IF SimNum(x) >= 0
       THEN SimNum(x) * SimNum(x) * SimDen2(y) > SimNum(y) * SimNum(y) * SimDen2(x)
       ELSE SimNum(x) * SimNum(x) * SimDen2(y) < SimNum(y) * SimNum(y) * SimDen2(x)

\* A sort that leaves the items as they are: what claim C14 would not survive.
sortKeepsOrder(items, greater) == items

\* Array.prototype.sort with a comparator that puts the greater key first: the
\* sort is stable, so equal keys stay in their order.  greater[j][i] tells
\* whether item j's key is greater than item i's.
sortDescending(items, greater) ==
  Only({ [r \in 1..Len(items) |-> items[Only({i \in 1..Len(items) : rank[i] = r})]]
         : rank \in {[i \in 1..Len(items) |->
                       1 + Cardinality({j \in 1..Len(items) :
                             greater[j][i] \/ (~greater[i][j] /\ j < i)})]} })

\* A slice that keeps one item more: what claim C7 would not survive.
sliceToOneMore(items, limit) == SubSeq(items, 1, Min(limit + 1, Len(items)))

\* Array.prototype.slice(0, limit) for limit >= 0.
sliceTo(items, limit) == SubSeq(items, 1, Min(limit, Len(items)))

\* A semantic mode that takes its results from the whole collection: what
\* claim C6 would not survive.
semanticSearchOfAll(chunksWithEmbeddings, queryEmbedding, limit) ==
  sliceTo(articleChunks, limit)

\* Lines 321-330.
semanticSearch(chunksWithEmbeddings, queryEmbedding, limit) ==
  Only({ sliceTo(sortDescending(chunksWithEmbeddings,
                   [j \in 1..Len(sims) |-> [i \in 1..Len(sims) |-> SimGreater(sims[j], sims[i])]]),
                 limit)
         : sims \in {[k \in 1..Len(chunksWithEmbeddings) |->
                       cosineSimilarity(queryEmbedding, chunksWithEmbeddings[k].embedding)]} })

\* Lines 336-351: the keyword score of a chunk with this title and body.
keywordScore(query, articleName, text) ==
  Only({ (IF includes(titleLower, queryLower) THEN 10 ELSE 0)
         + (IF includes(textLower, queryLower) THEN 5 ELSE 0)
         + SumTo([w \in 1..Len(queryWords) |->
                    (IF includes(titleLower, queryWords[w]) THEN 3 ELSE 0)
                    + (IF includes(textLower, queryWords[w]) THEN 1 ELSE 0)],
                 Len(queryWords))
         : queryLower \in {toLowerCase(query)}, textLower \in {toLowerCase(text)},
           titleLower \in {toLowerCase(articleName)}, queryWords \in {split(toLowerCase(query))} })

\* The queries offered where the keyword mode is examined: those of Queries
\* and one that begins with a blank.
KeywordQueries == Queries \cup {Str("queryPush")}

\* The scores of the chunks that can be without an embedding (the demo
\* chunks), for each query offered.
KeywordScores ==
  [q \in KeywordQueries |-> [k \in 1..Len(demoChunks) |->
     keywordScore(q, demoChunks[k].articleName, demoChunks[k].text)]]

ScoreOf(query, chunk) ==
  IF \E k \in 1..Len(demoChunks) : demoChunks[k].id = chunk.id /\ query \in KeywordQueries
  THEN KeywordScores[query][Only({k \in 1..Len(demoChunks) : demoChunks[k].id = chunk.id})]
  ELSE keywordScore(query, chunk.articleName, chunk.text)

\* Lines 334-358.
keywordSearch(chunks, query, limit) ==
  Only({ [r \in 1..Len(top) |-> top[r].chunk]
         : top \in {sliceTo(
             Only({ sortDescending(scored,
                      [j \in 1..Len(scored) |-> [i \in 1..Len(scored) |->
                         scored[j].score > scored[i].score]])
                    : scored \in {SelectSeq([k \in 1..Len(chunks) |->
                                     [chunk |-> chunks[k], score |-> ScoreOf(query, chunks[k])]],
                                   LAMBDA item : item.score > 0)} }),
             limit)} })

\* A filter that looks for embeddings only if the first chunk has one: what
\* claim C22 would not survive.
EmbeddedIfFirstIs(chunks) ==
  IF Len(chunks) > 0 /\ HasEmbedding(chunks[1]) THEN SelectSeq(chunks, HasEmbedding)
  ELSE << >>

Embedded(chunks) == SelectSeq(chunks, HasEmbedding)

FreeSeeders == {d \in SeederRuns : seeders[d].pc = "idle"}

\* A searchArticles that reads the snapshot whether or not the collection is
\* empty: what claim C23 would not survive.
searchArticlesLoadsAlways(q, query, limit, readOk) ==
  LET loaded == loadChunksFromFile(readOk)
      seeds  == Len(loaded) = 0
      chunksWithEmbeddings == Embedded(loaded)
      base   == [query |-> query, limit |-> limit,
                 emptyAtCall |-> Len(articleChunks) = 0, seeded |-> seeds,
                 embeddedAtCall |-> Len(chunksWithEmbeddings) > 0]
  IN  /\ searchCalls[q].pc # "embedding"
      /\ seeds => FreeSeeders # {}
      /\ articleChunks' = loaded
      /\ seeders' = IF seeds THEN [seeders EXCEPT ![Only(FreeSeeders)] = createDemoChunks]
                    ELSE seeders
      /\ searchCalls' = [searchCalls EXCEPT ![q] =
           IF Len(loaded) = 0
           THEN base @@ [pc |-> "returned", mode |-> "none", result |-> << >>]
           ELSE IF Len(chunksWithEmbeddings) > 0
           THEN base @@ [pc |-> "embedding", chunksWithEmbeddings |-> chunksWithEmbeddings]
           ELSE base @@ [pc |-> "returned", mode |-> "keyword",
                         result |-> keywordSearch(loaded, query, limit)]]
      /\ UNCHANGED <<articleStore, storageFile, tmpWritable, storeCalls>>

\* Lines 292-319: the call up to its return or to the request of the query's
\* embedding.  It loads the snapshot into an empty collection, starts the Demo
\* Seeder (without awaiting it) if the collection is still empty, and returns
\* nothing if it is empty then.
searchArticles(q, query, limit, readOk) ==
  LET loaded == IF Len(articleChunks) = 0 THEN loadChunksFromFile(readOk) ELSE articleChunks
      seeds  == Len(loaded) = 0
      chunksWithEmbeddings == Embedded(loaded)
      base   == [query |-> query, limit |-> limit,
                 emptyAtCall |-> Len(articleChunks) = 0, seeded |-> seeds,
                 embeddedAtCall |-> Len(chunksWithEmbeddings) > 0]
  IN  /\ searchCalls[q].pc # "embedding"
      /\ seeds => FreeSeeders # {}
      /\ articleChunks' = loaded
      /\ seeders' = IF seeds THEN [seeders EXCEPT ![Only(FreeSeeders)] = createDemoChunks]
                    ELSE seeders
      /\ searchCalls' = [searchCalls EXCEPT ![q] =
           IF Len(loaded) = 0
           THEN base @@ [pc |-> "returned", mode |-> "none", result |-> << >>]
           ELSE IF Len(chunksWithEmbeddings) > 0
           THEN base @@ [pc |-> "embedding", chunksWithEmbeddings |-> chunksWithEmbeddings]
           ELSE base @@ [pc |-> "returned", mode |-> "keyword",
                         result |-> keywordSearch(loaded, query, limit)]]
      /\ UNCHANGED <<articleStore, storageFile, tmpWritable, storeCalls>>

SearchReturn(call, mode, result) ==
  [query |-> call.query, limit |-> call.limit, emptyAtCall |-> call.emptyAtCall,
   seeded |-> call.seeded, embeddedAtCall |-> call.embeddedAtCall,
   pc |-> "returned", mode |-> mode, result |-> result]

\* Lines 319-330: the query's embedding arrives.
searchEmbedded(q) ==
  /\ searchCalls[q].pc = "embedding"
  /\ searchCalls' = [searchCalls EXCEPT ![q] =
       SearchReturn(searchCalls[q], "semantic",
                    semanticSearch(searchCalls[q].chunksWithEmbeddings,
                                   Embedding(searchCalls[q].query), searchCalls[q].limit))]
  /\ UNCHANGED <<articleStore, articleChunks, storageFile, tmpWritable, storeCalls, seeders>>

\* A fallback that answers from the chunks the call captured before it
\* awaited: what claim C8 would not survive.
searchEmbedFailedCaptured(q) ==
  /\ searchCalls[q].pc = "embedding"
  /\ searchCalls' = [searchCalls EXCEPT ![q] =
       SearchReturn(searchCalls[q], "fallback",
                    sliceTo(searchCalls[q].chunksWithEmbeddings, searchCalls[q].limit))]
  /\ UNCHANGED <<articleStore, articleChunks, storageFile, tmpWritable, storeCalls, seeders>>

\* Lines 360-366: the query's embedding call fails.
searchEmbedFailed(q) ==
  /\ searchCalls[q].pc = "embedding"
  /\ searchCalls' = [searchCalls EXCEPT ![q] =
       SearchReturn(searchCalls[q], "fallback", sliceTo(articleChunks, searchCalls[q].limit))]
  /\ UNCHANGED <<articleStore, articleChunks, storageFile, tmpWritable, storeCalls, seeders>>

-----------------------------------------------------------------------------
(* clearArticles: lines 386-389.                                           *)

clearArticles ==
  /\ articleStore' = << >>
  /\ articleChunks' = << >>
  /\ UNCHANGED <<storageFile, tmpWritable, storeCalls, searchCalls, seeders>>

-----------------------------------------------------------------------------
(* The chat handler (src/unnamed/part_003, lines 9-144): it searches with  *)
(* the request's query, builds the prompt context and the sources from the *)
(* chunks found, asks the language model and responds.                     *)

\* The limit the handler passes to searchArticles: line 49.
ChatLimit == 5

\* Lines 55-71: the sources list after the chunks from the k-th on are dealt
\* with, a chunk adding an entry unless an entry has its url already.
RECURSIVE chatSources(_, _, _)
chatSources(relevantChunks, k, sources) ==
  IF k > Len(relevantChunks) THEN sources
  ELSE LET chunk == relevantChunks[k]
       IN  chatSources(relevantChunks, k + 1,
             IF \E j \in 1..Len(sources) : sources[j].url = chunk.url
             THEN sources
             ELSE Append(sources, [name |-> chunk.articleName, url |-> chunk.url]))

\* Lines 36-49: the request arrives; without a query the handler answers 400,
\* with one it calls searchArticles(query, 5) and awaits it.
chatHandler(query, readOk) ==
  /\ chat.pc \in {"idle", "responded"}
  /\ IF Length(query) = 0
     THEN /\ chat' = [pc |-> "responded", statusCode |-> 400]
          /\ UNCHANGED <<articleStore, articleChunks, storageFile, tmpWritable, storeCalls,
                         searchCalls, seeders>>
     ELSE /\ searchArticles("q1", query, ChatLimit, readOk)
          /\ chat' = [pc |-> "searching", query |-> query]
  /\ UNCHANGED <<calls, chunker, app>>

\* Lines 49-98: searchArticles has returned; the handler builds the context
\* and the sources, and asks the language model for the completion.
chatBuildContext ==
  /\ chat.pc = "searching"
  /\ searchCalls["q1"].pc = "returned"
  /\ chat' = [pc |-> "completing", query |-> chat.query,
              relevantChunks |-> searchCalls["q1"].result,
              sources |-> chatSources(searchCalls["q1"].result, 1, << >>)]
  /\ UNCHANGED <<articleStore, articleChunks, storageFile, tmpWritable, storeCalls,
                 searchCalls, seeders, calls, chunker, app>>

\* Lines 121-132: the completion arrives, and the handler responds 200 with
\* the sources.
chatCompleted ==
  /\ chat.pc = "completing"
  /\ chat' = [pc |-> "responded", statusCode |-> 200, query |-> chat.query,
              relevantChunks |-> chat.relevantChunks, sources |-> chat.sources]
  /\ UNCHANGED <<articleStore, articleChunks, storageFile, tmpWritable, storeCalls,
                 searchCalls, seeders, calls, chunker, app>>

\* Lines 133-144: the completion call fails, and the handler responds 500.
chatCompletionFailed ==
  /\ chat.pc = "completing"
  /\ chat' = [pc |-> "responded", statusCode |-> 500]
  /\ UNCHANGED <<articleStore, articleChunks, storageFile, tmpWritable, storeCalls,
                 searchCalls, seeders, calls, chunker, app>>

-----------------------------------------------------------------------------
(* The chat UI (src/src/App.tsx).  Its state is the React state of lines   *)
(* 19-21, the requests it has sent and not yet heard of, in the order sent, *)
(* and the number of requests it has started.                              *)

serverVars == <<articleStore, articleChunks, storageFile, tmpWritable, storeCalls,
                searchCalls, seeders, calls, chunker, chat>>

\* The texts a user types into the input.
AppInputs == {Str("emptyText"), Str("blankText"), Str("queryTesting")}

\* The keys a user presses in the input, with or without shift.
AppKeys == {"Enter", "a"}

\* The requests the UI starts in one run.
MaxRequests == 3

\* Line 176: the user edits the input.
setInputText(t) ==
  /\ app' = [app EXCEPT !.inputText = t]
  /\ UNCHANGED serverVars

\* Lines 56-77: sendMessage up to its fetch.
sendMessage ==
  /\ IF Length(trim(app.inputText)) = 0 THEN UNCHANGED app
     ELSE /\ app.started < MaxRequests
          /\ app' = [app EXCEPT !.messages = Append(@, "user"),
                                !.inputText = Str("emptyText"),
                                !.isLoading = TRUE,
                                !.requests = Append(@, "chat"),
                                !.started = @ + 1]
  /\ UNCHANGED serverVars

\* Lines 182-187: a click on Send, which the button takes unless disabled.
clickSend ==
  /\ ~(Length(trim(app.inputText)) = 0 \/ app.isLoading)
  /\ sendMessage

\* Lines 105-110 and 177: a key pressed in the input.
handleKeyPress(key, shiftKey) ==
  IF key = "Enter" /\ ~shiftKey THEN sendMessage
  ELSE UNCHANGED vars

\* Lines 118-124 and 23-31: a click on the Test button, which the button
\* takes unless disabled: testKnowledgeBase up to its fetch.
testKnowledgeBase ==
  /\ ~app.isLoading
  /\ app.started < MaxRequests
  /\ app' = [app EXCEPT !.isLoading = TRUE, !.requests = Append(@, "ingest"),
                        !.started = @ + 1]
  /\ UNCHANGED serverVars

\* The requests in flight but the k-th.
RequestsBut(k) == SubSeq(app.requests, 1, k - 1) \o SubSeq(app.requests, k + 1, Len(app.requests))

\* Lines 33-42 and 79-90, then the finally of lines 51-53 and 100-102: the
\* response to the k-th request in flight arrives and parses.
fetchResolved(k) ==
  /\ k \in 1..Len(app.requests)
  /\ app' = [app EXCEPT !.messages = Append(@, IF app.requests[k] = "chat" THEN "bot" ELSE "test"),
                        !.isLoading = FALSE,
                        !.requests = RequestsBut(k)]
  /\ UNCHANGED serverVars

\* Lines 43-50 and 91-99, then the finally: the k-th request in flight fails.
fetchRejected(k) ==
  /\ k \in 1..Len(app.requests)
  /\ app' = [app EXCEPT !.messages = Append(@, "error"),
                        !.isLoading = FALSE,
                        !.requests = RequestsBut(k)]
  /\ UNCHANGED serverVars

-----------------------------------------------------------------------------
(* The specifications.                                                     *)

\* The articles each caller ingests: those of one segment.
StoreInputs == [s1 |-> {ArticleA1v1, ArticleA2}, s2 |-> {ArticleA1v1b}]

Limits == 0..MaxLimit

\* A call is made, as long as the run may make one more.
Call(A) == calls < MaxCalls /\ calls' = calls + 1 /\ A /\ UNCHANGED <<chunker, chat, app>>

\* The embedding service answers.
Answer(A) == A /\ UNCHANGED <<calls, chunker, chat, app>>

\* Every interleaving of callers that ingest articles of one segment, a caller
\* that searches, the Demo Seeder's runs and clearArticles.
Next ==
  \/ \E p \in StoreCallers : \E a \in StoreInputs[p] : Call(storeArticle(p, a))
  \/ \E p \in StoreCallers : Answer(storeEmbedded(p))
  \/ \E p \in StoreCallers : Answer(storeEmbedFailed(p))
  \/ \E q \in Searchers, query \in Queries, limit \in Limits, readOk \in BOOLEAN :
       Call(searchArticles(q, query, limit, readOk))
  \/ \E q \in Searchers : Answer(searchEmbedded(q))
  \/ \E q \in Searchers : Answer(searchEmbedFailed(q))
  \/ \E d \in SeederRuns : Answer(seedEmbedded(d))
  \/ \E d \in SeederRuns : Answer(seedEmbedFailed(d))
  \/ Call(clearArticles)

Spec == Init /\ [][Next]_vars

\* One caller that ingests article after article, each call ending before the
\* next begins.
NextStore ==
  \/ \E a \in Articles : Answer(storeArticle("s1", a))
  \/ Answer(storeEmbedded("s1"))
  \/ Answer(storeEmbedFailed("s1"))

SpecStore == Init /\ [][NextStore]_vars

\* Re-ingestion overlapped by searches: a caller ingests versions of article
\* a1 where /tmp is writable, and while a call that replaces a stored version
\* awaits the embedding of a segment in SearchPoints, another caller searches.
SearchPoints == {0, 1}

ReingestSuspended ==
  \E p \in StoreCallers :
    /\ storeCalls[p].pc = "embedding"
    /\ storeCalls[p].i \in SearchPoints
    /\ storeCalls[p].article.id \in DOMAIN articleStore

InitReingest == Init /\ tmpWritable

NextReingest ==
  \/ \E a \in {ArticleA1v1, ArticleA1v2} : Call(storeArticle("s1", a))
  \/ Answer(storeEmbedded("s1"))
  \/ ReingestSuspended
       /\ Answer(searchArticles("q1", Str("queryTesting"), MaxLimit, TRUE))
  \/ Answer(searchEmbedded("q1"))
  \/ Answer(searchEmbedFailed("q1"))

SpecReingest == InitReingest /\ [][NextReingest]_vars
\* The program as deployed, where nothing calls clearArticles: searches, one
\* ingesting caller and the Demo Seeder runs.  Every embedding request of a
\* seeder run is answered, by an embedding or by an error.
SeedAnswer(d) == Answer(seedEmbedded(d)) \/ Answer(seedEmbedFailed(d))

NextSeed ==
  \/ \E q \in Searchers, readOk \in BOOLEAN :
       Call(searchArticles(q, Str("queryTesting"), MaxLimit, readOk))
  \/ \E q \in Searchers : Answer(searchEmbedded(q))
  \/ \E q \in Searchers : Answer(searchEmbedFailed(q))
  \/ Call(storeArticle("s1", ArticleA2))
  \/ Answer(storeEmbedded("s1"))
  \/ Answer(storeEmbedFailed("s1"))
  \/ \E d \in SeederRuns : Answer(seedEmbedded(d))
  \/ \E d \in SeederRuns : Answer(seedEmbedFailed(d))

SpecSeed == Init /\ [][NextSeed]_vars /\ \A d \in SeederRuns : WF_vars(SeedAnswer(d))

\* chunkText on its own, lines 147-200: a call with a text and two token
\* counts, and its return.  The call's record keeps the windows walked
\* besides the segments returned.
ChunkTexts ==
  {Str("emptyText"), Str("blankText"), Str("shortText"), Str("dotAtCutText"), Str("gapText"),
   Str("longText"), Str("hugeText")}

ChunkMaxTokens == {0, 100, 101, 800, 2500}

ChunkOverlapTokens == {0 - 25, 0, 1, 20, 100, 1000}

InitChunk ==
  /\ articleStore = << >>
  /\ articleChunks = << >>
  /\ storageFile = NoFile
  /\ tmpWritable = TRUE
  /\ storeCalls = [p \in StoreCallers |-> IdleCall]
  /\ searchCalls = [q \in Searchers |-> IdleCall]
  /\ seeders = [d \in SeederRuns |-> IdleCall]
  /\ calls = 0
  /\ chat = IdleCall
  /\ app = AppStart
  /\ chunker \in {[pc |-> "called", text |-> t, maxTokens |-> m, overlapTokens |-> o] :
                    t \in ChunkTexts, m \in ChunkMaxTokens, o \in ChunkOverlapTokens}

chunkTextReturn ==
  /\ chunker.pc = "called"
  /\ chunker' =
       [pc |-> "returned", text |-> chunker.text, maxTokens |-> chunker.maxTokens,
        overlapTokens |-> chunker.overlapTokens,
        windows |-> IF Length(trim(chunker.text)) > maxChars(chunker.maxTokens)
                    THEN chunkWindows(chunker.text, chunker.maxTokens, chunker.overlapTokens)
                    ELSE << >>,
        chunks |-> chunkText(chunker.text, chunker.maxTokens, chunker.overlapTokens)]
  /\ UNCHANGED <<articleStore, articleChunks, storageFile, tmpWritable, storeCalls,
                 searchCalls, seeders, calls, chat, app>>

SpecChunk == InitChunk /\ [][chunkTextReturn]_vars

\* One chat request on a store that one caller fills with articles, two of
\* them without a public URL: the request arrives once the store holds a
\* chunk, so that the search starts no Demo Seeder run.
NextChat ==
  \/ \E a \in ChatArticles : Call(storeArticle("s1", a))
  \/ Answer(storeEmbedded("s1"))
  \/ Answer(storeEmbedFailed("s1"))
  \/ \E query \in Queries :
       chat.pc = "idle" /\ Len(articleChunks) > 0 /\ chatHandler(query, TRUE)
  \/ Answer(searchEmbedded("q1"))
  \/ Answer(searchEmbedFailed("q1"))
  \/ chatBuildContext
  \/ chatCompleted
  \/ chatCompletionFailed

SpecChat == Init /\ [][NextChat]_vars

\* Searches around one ingestion and the reset that follows it: the store
\* is filled by one storeArticle call, emptied by clearArticles once the
\* call has returned, and searched before, between and after, with the
\* snapshot readable or not.
NextBoot ==
  \/ \E readOk \in BOOLEAN :
       Call(searchArticles("q1", Str("queryTesting"), MaxLimit, readOk))
  \/ Answer(searchEmbedded("q1"))
  \/ Answer(searchEmbedFailed("q1"))
  \/ storeCalls["s1"].pc = "idle" /\ Answer(storeArticle("s1", ArticleA2))
  \/ Answer(storeEmbedded("s1"))
  \/ Answer(storeEmbedFailed("s1"))
  \/ \E d \in SeederRuns : Answer(seedEmbedded(d))
  \/ \E d \in SeederRuns : Answer(seedEmbedFailed(d))
  \/ articleStore # << >> /\ Answer(clearArticles)

\* A deployment that lets the process write its snapshot.
InitBoot == Init /\ tmpWritable

SpecBoot == InitBoot /\ [][NextBoot]_vars

\* The chat UI on its own: a user who types, clicks and presses keys while
\* the requests sent are answered in any order.
NextApp ==
  \/ \E t \in AppInputs : setInputText(t)
  \/ clickSend
  \/ \E key \in AppKeys, shiftKey \in BOOLEAN : handleKeyPress(key, shiftKey)
  \/ testKnowledgeBase
  \/ \E k \in 1..MaxRequests : fetchResolved(k)
  \/ \E k \in 1..MaxRequests : fetchRejected(k)

SpecApp == Init /\ [][NextApp]_vars

\* Searches on the demo chunks alone, which are the chunks that can lack an
\* embedding: searches with each query, and the Demo Seeder runs they start.
NextKeyword ==
  \/ \E q \in Searchers, query \in KeywordQueries, limit \in Limits :
       Call(searchArticles(q, query, limit, TRUE))
  \/ \E q \in Searchers : Answer(searchEmbedded(q))
  \/ \E q \in Searchers : Answer(searchEmbedFailed(q))
  \/ \E d \in SeederRuns : Answer(seedEmbedded(d))
  \/ \E d \in SeederRuns : Answer(seedEmbedFailed(d))

SpecKeyword == Init /\ [][NextKeyword]_vars

-----------------------------------------------------------------------------
(* Properties of storeArticle when its calls do not overlap (SpecStore).   *)

ChunksOf(chunks, articleId) == SelectSeq(chunks, LAMBDA c : c.articleId = articleId)

DistinctIds(chunks) == \A i, j \in 1..Len(chunks) : chunks[i].id = chunks[j].id => i = j

\* The chunks a call builds from the segments whose embedding arrived, in
\* segment order.
RECURSIVE ChunksBuilt(_, _, _, _)
ChunksBuilt(article, textChunks, failed, n) ==
  IF n = 0 THEN << >>
  ELSE IF (n - 1) \in failed THEN ChunksBuilt(article, textChunks, failed, n - 1)
  ELSE Append(ChunksBuilt(article, textChunks, failed, n - 1),
              NewChunk(article, n - 1, textChunks[n], Embedding(textChunks[n])))

\* C2: between storeArticle calls that do not overlap, the chunks in the
\* collection whose articleId is X are exactly the chunks that the most recent
\* call for X that completed created (the chunks the article index holds for
\* X, and after a call for X returns, the chunks that call built): no chunk of
\* an earlier generation of X remains, and no chunk of X appears twice.
C2_OneGeneration ==
  storeCalls["s1"].pc # "embedding" =>
    \A X \in ArticleIds :
      /\ ChunksOf(articleChunks, X) =
           (IF X \in DOMAIN articleStore THEN articleStore[X].chunks ELSE << >>)
      /\ DistinctIds(ChunksOf(articleChunks, X))
      /\ (storeCalls["s1"].pc = "returned" /\ storeCalls["s1"].article.id = X) =>
           /\ ChunksOf(articleChunks, X) = storeCalls["s1"].chunks
           /\ \A k \in 1..Len(storeCalls["s1"].chunks) :
                storeCalls["s1"].chunks[k].lastModified = storeCalls["s1"].article.lastModified

\* A call for an article returned after it removed chunks of an earlier
\* generation and stored chunks of its own.
C2_Witness ==
  /\ storeCalls["s1"].pc = "returned"
  /\ storeCalls["s1"].removed > 0
  /\ Len(storeCalls["s1"].chunks) > 0

\* C5 (as the specification states it): after every completed storeArticle
\* call, the chunkIndex values of the article's stored chunks are 0..n-1 in
\* store order, n being the number of chunks stored for the article, whichever
\* embedding calls failed.
C5_ContiguousChunkIndex ==
  storeCalls["s1"].pc = "returned" =>
    LET stored == ChunksOf(articleChunks, storeCalls["s1"].article.id)
    IN  \A k \in 1..Len(stored) : stored[k].chunkIndex = k - 1

\* C9: a storeArticle call with an article whose text is empty or only
\* whitespace throws, and the step leaves the chunk collection, the article
\* index and the persisted snapshot as they were.
C9_InvalidTextLeavesStore ==
  [][\A p \in StoreCallers :
       (/\ storeCalls[p].pc # "embedding"
        /\ storeCalls'[p].pc # "idle"
        /\ ~ValidText(storeCalls'[p].article.text))
       => (storeCalls'[p].pc = "threw" /\ UNCHANGED storeVars)]_vars

\* A call threw for an article of which the collection holds chunks.
C9_Witness ==
  /\ storeCalls["s1"].pc = "threw"
  /\ ~ValidText(storeCalls["s1"].article.text)
  /\ Len(ChunksOf(articleChunks, storeCalls["s1"].article.id)) > 0
  /\ storeCalls["s1"].article.id \in DOMAIN articleStore

\* C10: a failed embedding call for a segment does not abort storeArticle.  A
\* call throws only for invalid text; a call that returned has stored exactly
\* the segments whose embedding arrived, each with its embedding, in the chunk
\* collection and in article.chunks, none of the failed segments, and has put
\* the article into the article index, even when every segment failed.
C10_FailedSegmentsSkipped ==
  /\ storeCalls["s1"].pc = "threw" => ~ValidText(storeCalls["s1"].article.text)
  /\ storeCalls["s1"].pc = "returned" =>
       LET call  == storeCalls["s1"]
           built == ChunksBuilt([call.article EXCEPT !.chunks = << >>], call.textChunks,
                                call.failed, Len(call.textChunks))
       IN  /\ call.i = Len(call.textChunks)
           /\ call.article.chunks = built
           /\ ChunksOf(articleChunks, call.article.id) = built
           /\ \A k \in 1..Len(built) : HasEmbedding(built[k]) /\ built[k].chunkIndex \notin call.failed
           /\ call.article.id \in DOMAIN articleStore
           /\ articleStore[call.article.id] = call.article

\* A call returned after some embedding calls failed and others did not.
C10_Witness ==
  /\ storeCalls["s1"].pc = "returned"
  /\ storeCalls["s1"].failed # {}
  /\ Len(storeCalls["s1"].chunks) > 0
  /\ storeCalls["s1"].article.id \in DOMAIN articleStore
-----------------------------------------------------------------------------
(* Properties of searchArticles and of the store under every interleaving  *)
(* (Spec).                                                                 *)

\* C1 (as the specification states it): for every limit >= 1, a
\* searchArticles call made while the chunk collection is empty and no
\* snapshot can be loaded returns a non-empty result of at most limit chunks,
\* the Demo Seeder having populated the store before the call returns.
C1_SeededSearchReturnsChunks ==
  \A q \in Searchers :
    (/\ searchCalls[q].pc = "returned"
     /\ searchCalls[q].emptyAtCall
     /\ searchCalls[q].seeded
     /\ searchCalls[q].limit >= 1)
    => (Len(searchCalls[q].result) >= 1 /\ Len(searchCalls[q].result) <= searchCalls[q].limit)

\* C4 (as the specification states it): in every reachable state, no two
\* chunks of the chunk collection have the same id.
C4_UniqueChunkIds == DistinctIds(articleChunks)

\* C6 (as the specification states it): when the store holds a chunk with an
\* embedding at the time searchArticles is called, no chunk of the result lacks
\* an embedding, whether the query-embedding call succeeds or fails.
C6_NeverReturnsUnembedded ==
  \A q \in Searchers :
    (searchCalls[q].pc = "returned" /\ searchCalls[q].embeddedAtCall)
    => \A k \in 1..Len(searchCalls[q].result) : HasEmbedding(searchCalls[q].result[k])

\* C6 (amended): when the store holds a chunk with an embedding at the time
\* searchArticles is called and the query-embedding call succeeds, no chunk of
\* the result lacks an embedding, for every query and every limit.
C6_SemanticReturnsEmbedded ==
  \A q \in Searchers :
    (/\ searchCalls[q].pc = "returned"
     /\ searchCalls[q].embeddedAtCall
     /\ searchCalls[q].mode # "fallback")
    => /\ searchCalls[q].mode = "semantic"
       /\ \A k \in 1..Len(searchCalls[q].result) : HasEmbedding(searchCalls[q].result[k])

\* A semantic search returned a chunk while the collection holds a chunk
\* without an embedding.
C6_Witness ==
  \E q \in Searchers :
    /\ searchCalls[q].pc = "returned"
    /\ searchCalls[q].mode = "semantic"
    /\ Len(searchCalls[q].result) >= 1
    /\ \E k \in 1..Len(articleChunks) : ~HasEmbedding(articleChunks[k])

-----------------------------------------------------------------------------
(* Re-ingestion overlapped by searches (SpecReingest).                     *)

\* A storeArticle call for article X is suspended after it removed X's old
\* chunks and inserted some, not all, of the new ones, and the collection holds
\* just these.
PartlyInserted ==
  \E p \in StoreCallers :
    /\ storeCalls[p].pc = "embedding"
    /\ storeCalls[p].removed > 0
    /\ Len(storeCalls[p].chunks) > 0
    /\ Len(storeCalls[p].chunks) < Len(storeCalls[p].textChunks)
    /\ ChunksOf(articleChunks, storeCalls[p].article.id) = storeCalls[p].chunks

\* The collection holds chunks of two generations of an article.
TwoGenerations ==
  \E i, j \in 1..Len(articleChunks) :
    /\ i < j
    /\ articleChunks[i].articleId = articleChunks[j].articleId
    /\ \/ articleChunks[i].lastModified # articleChunks[j].lastModified
       \/ articleChunks[i].chunkIndex = articleChunks[j].chunkIndex

\* C3 (as the specification states it): re-ingestion is atomic with respect
\* to other operations.  A searchArticles call that runs while a storeArticle
\* call for X is suspended at an embedding request never reads a collection in
\* which X's old chunks are gone and X's new chunks are partly inserted, and the
\* collection never holds two generations of X.
C3_ReingestionAtomic ==
  [][/\ \A q \in Searchers :
          (searchCalls[q].pc # "embedding" /\ searchCalls'[q] # searchCalls[q])
          => ~PartlyInserted'
     /\ ~TwoGenerations']_vars

\* C3 (amended): the discarding is one step.  The step in which a
\* storeArticle call for X with valid text begins leaves no chunk of X in the
\* collection, keeps the chunks of the other articles in their order, and
\* comes before the insertion of any new chunk.  (The insertion that follows
\* is interleaved with other calls: a search can read the partly inserted set,
\* and a snapshot loaded meanwhile brings the old generation back.)
C3_DiscardIsOneStep ==
  [][\A p \in StoreCallers :
       (storeCalls[p].pc # "embedding" /\ storeCalls'[p].pc = "embedding")
       => /\ \A k \in 1..Len(articleChunks') :
               articleChunks'[k].articleId # storeCalls'[p].article.id
          /\ articleChunks' =
               SelectSeq(articleChunks,
                         LAMBDA c : c.articleId # storeCalls'[p].article.id)
          /\ storeCalls'[p].chunks = << >>
          /\ storeCalls'[p].removed =
               Len(ChunksOf(articleChunks, storeCalls'[p].article.id))]_vars

\* A call that replaces a stored generation of many chunks has just removed
\* them all.
C3_Witness ==
  /\ storeCalls["s1"].pc = "embedding"
  /\ storeCalls["s1"].i = 0
  /\ storeCalls["s1"].removed > 1
  /\ storeCalls["s1"].article.id \in DOMAIN articleStore
  /\ ChunksOf(articleChunks, storeCalls["s1"].article.id) = << >>
-----------------------------------------------------------------------------
(* Persistence failures (Spec).                                            *)

\* C11: persistence failures are never surfaced.  The step that ends a
\* storeArticle call returns, with the article in the article index and the
\* chunk of the last segment in the collection, also where the snapshot cannot
\* be written (the file then stays as it was).  A searchArticles call on an
\* empty collection does not fail: it either loads the snapshot or, when the
\* snapshot is absent or cannot be read, goes on with the empty collection and
\* starts the Demo Seeder.
C11_PersistenceFailuresHidden ==
  [][/\ \A p \in StoreCallers :
          (storeCalls[p].pc = "embedding" /\ storeCalls'[p].pc # "embedding")
          => /\ storeCalls'[p].pc = "returned"
             /\ storeCalls'[p].article.id \in DOMAIN articleStore'
             /\ articleStore'[storeCalls'[p].article.id] = storeCalls'[p].article
             /\ storeCalls'[p].article.chunks = storeCalls'[p].chunks
             /\ Len(storeCalls'[p].chunks) > Len(storeCalls[p].chunks) =>
                  articleChunks' =
                    Append(articleChunks, storeCalls'[p].chunks[Len(storeCalls'[p].chunks)])
             /\ ~tmpWritable => storageFile' = storageFile
     /\ \A q \in Searchers :
          (/\ searchCalls[q].pc # "embedding"
           /\ searchCalls'[q] # searchCalls[q]
           /\ Len(articleChunks) = 0)
          => /\ searchCalls'[q].pc \in {"returned", "embedding"}
             /\ ~storageFile.exists => Len(articleChunks') = 0
             /\ Len(articleChunks') = 0 =>
                  /\ searchCalls'[q].seeded
                  /\ \E d \in SeederRuns :
                       seeders[d].pc = "idle" /\ seeders'[d] = createDemoChunks]_vars

\* A storeArticle call returned where /tmp is not writable: the article is in
\* the index with its chunks, and there is no snapshot.
C11_Witness ==
  \E p \in StoreCallers :
    /\ ~tmpWritable
    /\ storeCalls[p].pc = "returned"
    /\ Len(storeCalls[p].chunks) > 0
    /\ storeCalls[p].article.id \in DOMAIN articleStore
    /\ ChunksOf(articleChunks, storeCalls[p].article.id) # << >>
    /\ ~storageFile.exists
-----------------------------------------------------------------------------
(* The Demo Seeder (SpecSeed).                                             *)

\* Demo chunk n as a run stores it, given the demo chunks whose embedding call
\* failed.
DemoStored(n, failed) ==
  IF (n - 1) \in failed THEN demoChunks[n]
  ELSE WithEmbedding(demoChunks[n], Embedding(demoChunks[n].text))

\* C12: every step of a Demo Seeder run appends its demo chunk to the chunk
\* collection, without an embedding if the embedding call failed and with it
\* otherwise; at the step that finishes the run the three demo chunks are in
\* the collection in their fixed order, each as its embedding call left it;
\* and, every embedding request being answered, a run that started finishes.
C12_SeederStoresAllDemoChunks ==
  /\ [][\A d \in SeederRuns :
          (seeders[d].pc = "embedding" /\ seeders'[d] # seeders[d])
          => LET k      == seeders[d].k
                 n      == Len(articleChunks')
                 failed == IF HasEmbedding(articleChunks'[n]) THEN seeders[d].failed
                           ELSE seeders[d].failed \cup {k}
             IN  /\ n = Len(articleChunks) + 1
                 /\ articleChunks' = Append(articleChunks, DemoStored(k + 1, failed))
                 /\ seeders'[d].pc = "embedding" =>
                      (seeders'[d].k = k + 1 /\ seeders'[d].failed = failed)
                 /\ seeders'[d].pc # "embedding" =>
                      /\ k + 1 = Len(demoChunks)
                      /\ \E i, j \in 1..n :
                           /\ i < j /\ j < n
                           /\ articleChunks'[i] = DemoStored(1, failed)
                           /\ articleChunks'[j] = DemoStored(2, failed)
                           /\ articleChunks'[n] = DemoStored(3, failed)]_vars
  /\ \A d \in SeederRuns : (seeders[d].pc = "embedding") ~> (seeders[d].pc = "idle")

\* A run has finished after the embedding call of its second demo chunk
\* failed: the collection holds the three demo chunks in order, the second
\* without an embedding.
C12_Witness ==
  /\ \A d \in SeederRuns : seeders[d].pc = "idle"
  /\ Len(articleChunks) = 3
  /\ articleChunks[1] = DemoStored(1, {1})
  /\ articleChunks[2] = DemoStored(2, {1})
  /\ articleChunks[3] = DemoStored(3, {1})
-----------------------------------------------------------------------------
(* The keyword mode (SpecKeyword).                                         *)

\* The reference ranking of the specification, section 4.4.  needle occurs in
\* hay as a substring.
RefContains(hay, needle) ==
  \/ Len(needle) = 0
  \/ \E a \in 1..Len(hay) :
       a + Len(needle) - 1 <= Len(hay) /\ SubSeq(hay, a, a + Len(needle) - 1) = needle

\* The words of a query: its maximal runs of characters that are not white
\* space, each as the pair of its first and last position.
RefWords(cs) ==
  {w \in (1..Len(cs)) \X (1..Len(cs)) :
     /\ w[1] <= w[2]
     /\ \A k \in w[1]..w[2] : cs[k] \notin WhiteSpace
     /\ w[1] = 1 \/ cs[w[1] - 1] \in WhiteSpace
     /\ w[2] = Len(cs) \/ cs[w[2] + 1] \in WhiteSpace}

RefScore(query, articleName, text) ==
  LET q     == toLowerCase(query)
      title == toLowerCase(articleName)
      body  == toLowerCase(text)
  IN  (IF RefContains(title, q) THEN 10 ELSE 0)
      + (IF RefContains(body, q) THEN 5 ELSE 0)
      + 3 * Cardinality({w \in RefWords(q) : RefContains(title, SubSeq(q, w[1], w[2]))})
      + Cardinality({w \in RefWords(q) : RefContains(body, SubSeq(q, w[1], w[2]))})

RefScores ==
  [q \in KeywordQueries |-> [k \in 1..Len(demoChunks) |->
     RefScore(q, demoChunks[k].articleName, demoChunks[k].text)]]

RefScoreOf(query, chunk) ==
  RefScores[query][CHOOSE k \in 1..Len(demoChunks) : demoChunks[k].id = chunk.id]

\* The first n of the positions in cands, best score first and, among equal
\* scores, first in store order.
RECURSIVE RefTake(_, _, _, _)
RefTake(chunks, query, cands, n) ==
  IF n = 0 \/ cands = {} THEN << >>
  ELSE LET best == CHOOSE i \in cands : \A j \in cands :
                     \/ RefScoreOf(query, chunks[i]) > RefScoreOf(query, chunks[j])
                     \/ RefScoreOf(query, chunks[i]) = RefScoreOf(query, chunks[j]) /\ i <= j
       IN  <<chunks[best]>> \o RefTake(chunks, query, cands \ {best}, n - 1)

RefRanking(chunks, query, limit) ==
  RefTake(chunks, query, {i \in 1..Len(chunks) : RefScoreOf(query, chunks[i]) > 0}, limit)

\* C13 (as the specification states it): in keyword mode the result of
\* searchArticles is the reference ranking of the collection: 10 for the
\* lower-cased query in the title, 5 for it in the body, 3 and 1 for each word
\* of the query in the title and in the body; chunks that score 0 excluded;
\* descending score, ties in store order; the first limit.
C13_KeywordIsReferenceRanking ==
  [][\A q \in Searchers :
       (/\ searchCalls[q].pc # "embedding"
        /\ searchCalls'[q] # searchCalls[q]
        /\ searchCalls'[q].pc = "returned"
        /\ searchCalls'[q].mode = "keyword")
       => searchCalls'[q].result =
            RefRanking(articleChunks', searchCalls'[q].query, searchCalls'[q].limit)]_vars
-----------------------------------------------------------------------------
(* The semantic mode (Spec).                                               *)

\* How many times item c occurs in a sequence.
Count(c, items) == Cardinality({k \in 1..Len(items) : items[k] = c})

-----------------------------------------------------------------------------
(* The Chunker (SpecChunk).                                                *)

\* ts is cs without the white space at its two ends.
IsTrimOf(ts, cs) ==
  \/ /\ ts = << >>
     /\ \A k \in 1..Len(cs) : cs[k] \in WhiteSpace
  \/ /\ ts # << >>
     /\ ts[1] \notin WhiteSpace
     /\ ts[Len(ts)] \notin WhiteSpace
     /\ \E a \in 1..Len(cs) :
          /\ \A k \in 1..(a - 1) : cs[k] \in WhiteSpace
          /\ a + Len(ts) - 1 <= Len(cs)
          /\ \A k \in (a + Len(ts))..Len(cs) : cs[k] \in WhiteSpace
          /\ SubSeq(cs, a, a + Len(ts) - 1) = ts

\* The length of cs without the white space at its two ends.
TrimmedLen(cs) ==
  IF \A k \in 1..Len(cs) : cs[k] \in WhiteSpace THEN 0
  ELSE Len(cs) - Cardinality({k \in 1..Len(cs) : \A j \in 1..k : cs[j] \in WhiteSpace})
               - Cardinality({k \in 1..Len(cs) : \A j \in k..Len(cs) : cs[j] \in WhiteSpace})

\* The effective character budget of a call: 4 times the token budget clamped
\* to 100..2000, and at most 8000.
Budget(maxTokens) ==
  LET tokens == IF maxTokens < 100 THEN 100 ELSE IF maxTokens > 2000 THEN 2000 ELSE maxTokens
  IN  IF 4 * tokens > 8000 THEN 8000 ELSE 4 * tokens

\* C15 (as the specification states it): for any text and token counts, a
\* text shorter than the size budget yields exactly one segment, the trimmed
\* text.
C15_ShortTextOneSegment ==
  (chunker.pc = "returned" /\ Length(chunker.text) < Budget(chunker.maxTokens))
  => /\ Len(chunker.chunks) = 1
     /\ IsTrimOf(Chars(chunker.chunks[1]), Chars(chunker.text))

\* C15 (amended): for any text that is not empty or blank and any token
\* counts, a text whose trimmed length is at most the size budget (so every
\* text shorter than the budget) yields exactly one segment, the trimmed text;
\* an empty or blank text yields no segment.
C15_ShortTextOneTrimmedSegment ==
  chunker.pc = "returned" =>
    LET cs      == Chars(chunker.text)
        isBlank == \A k \in 1..Len(cs) : cs[k] \in WhiteSpace
    IN  /\ isBlank => chunker.chunks = << >>
        /\ (~isBlank /\ TrimmedLen(cs) <= Budget(chunker.maxTokens))
           => /\ Len(chunker.chunks) = 1
              /\ IsTrimOf(Chars(chunker.chunks[1]), cs)

\* chunkText returned one segment for a text that has white space around it
\* and fits the budget: the segment is shorter than the text.
C15_Witness ==
  /\ chunker.pc = "returned"
  /\ Length(chunker.text) < Budget(chunker.maxTokens)
  /\ Len(chunker.chunks) = 1
  /\ Length(chunker.chunks[1]) < Length(chunker.text)
  /\ Length(chunker.chunks[1]) > 0
\* The 0-based index of the first character of a window, and the index after
\* its last one, as slice takes them.
WindowFrom(w) == w.start5 \div 5

WindowTo(w) == w.end5 \div 5

\* The windows of a returned call join up: the first starts at index 0 and
\* each later one starts at or before the end of the one before it.
WindowsJoin ==
  /\ WindowFrom(chunker.windows[1]) = 0
  /\ \A k \in 1..(Len(chunker.windows) - 1) :
       WindowFrom(chunker.windows[k + 1]) <= WindowTo(chunker.windows[k])

\* The last window ends at the end of the trimmed text.
WindowsReachEnd ==
  WindowTo(chunker.windows[Len(chunker.windows)]) = TrimmedLen(Chars(chunker.text))

\* C16 (as the specification states it): for any text and token counts, the
\* windows of chunkText cover the trimmed text: the first starts at position
\* 0, each later one starts at or before the end of the previous one, and the
\* last ends at the end of the text.
C16_WindowsCoverText ==
  (chunker.pc = "returned" /\ Len(chunker.windows) > 0) => (WindowsJoin /\ WindowsReachEnd)

\* C16 (amended): for any text, any maxTokens and any overlapTokens >= 0, the
\* first window starts at position 0 and each later window starts at or
\* before the end of the previous one; the last window ends at the end of the
\* text when fewer than 50 segments are returned (at 50 the walk stops where
\* it is, and the rest of the text is dropped).  Each segment is its window
\* without the white space at the ends, and a window of white space yields no
\* segment.
C16_WindowsCoverUpToCap ==
  (chunker.pc = "returned" /\ Len(chunker.windows) > 0) =>
    LET cs   == Chars(trim(chunker.text))
        kept == {k \in 1..Len(chunker.windows) : chunker.windows[k].kept}
    IN  /\ chunker.overlapTokens >= 0 => WindowsJoin
        /\ (chunker.overlapTokens >= 0 /\ Len(chunker.chunks) < MaxChunks) => WindowsReachEnd
        /\ Cardinality(kept) = Len(chunker.chunks)
        /\ \A k \in 1..Len(chunker.windows) :
             LET w == chunker.windows[k]
             IN  /\ WindowFrom(w) < WindowTo(w)
                 /\ WindowTo(w) <= Len(cs)
                 /\ IsTrimOf(IF w.kept
                             THEN Chars(chunker.chunks[Cardinality({j \in kept : j <= k})])
                             ELSE << >>,
                             SubSeq(cs, WindowFrom(w) + 1, WindowTo(w)))

\* chunkText returned fewer than 50 segments from several windows that
\* overlap, the last of which ends at the end of the text.
C16_Witness ==
  /\ chunker.pc = "returned"
  /\ chunker.overlapTokens > 0
  /\ Len(chunker.windows) > 2
  /\ Len(chunker.chunks) < MaxChunks
  /\ WindowFrom(chunker.windows[2]) < WindowTo(chunker.windows[1])
  /\ WindowsReachEnd
\* C17 (as the specification states it): for any text and token counts,
\* every segment chunkText returns has at most maxChars characters, maxChars
\* being the effective character budget.
C17_SegmentWithinBudget ==
  chunker.pc = "returned" =>
    \A k \in 1..Len(chunker.chunks) :
      Length(chunker.chunks[k]) <= Budget(chunker.maxTokens)
\* C18: for any text and token counts, an overlap as large as the segment
\* size or larger included, every iteration of the walk starts its window at
\* least one character after the start of the window before it, so the walk
\* that chunkText returned from has no more windows than the text has
\* characters.
C18_WalkAdvances ==
  chunker.pc = "returned" =>
    /\ \A k \in 1..(Len(chunker.windows) - 1) :
         chunker.windows[k + 1].start5 >= chunker.windows[k].start5 + 5
    /\ Len(chunker.windows) <= TrimmedLen(Chars(chunker.text))

\* chunkText returned from a call whose overlap is larger than the segment
\* size, after windows that advance by exactly one character.
C18_Witness ==
  /\ chunker.pc = "returned"
  /\ chunker.overlapTokens >= 1000
  /\ chunker.maxTokens <= 800
  /\ \E k \in 1..(Len(chunker.windows) - 1) :
       chunker.windows[k + 1].start5 = chunker.windows[k].start5 + 5
\* C19: the chunkText call of a storeArticle call returns at most 50
\* segments, and the call adds at most 50 chunks: to its own list, and so to
\* the chunks the store holds for the article.
C19_AtMostFiftyChunks ==
  \A p \in StoreCallers :
    storeCalls[p].pc \in {"embedding", "returned"} =>
      /\ Len(storeCalls[p].textChunks) <= 50
      /\ Len(storeCalls[p].chunks) <= 50
      /\ Len(ChunksOf(articleChunks, storeCalls[p].article.id)) <= 50

\* A storeArticle call returned after adding 50 chunks, for a text longer
\* than one segment whose walk the cap ended.
C19_Witness ==
  /\ storeCalls["s1"].pc = "returned"
  /\ Length(storeCalls["s1"].article.text) > DefaultMaxTokens * CharsPerToken
  /\ Len(storeCalls["s1"].chunks) = 50
  /\ Len(ChunksOf(articleChunks, storeCalls["s1"].article.id)) = 50
\* C20 (as the specification states it): when the chat handler responds
\* with an answer, for each chunk searchArticles returned to it the sources
\* of the response have an entry with that chunk's articleName and url.
C20_EveryChunkAttributed ==
  (chat.pc = "responded" /\ chat.statusCode = 200) =>
    \A k \in 1..Len(chat.relevantChunks) :
      \E j \in 1..Len(chat.sources) :
        /\ chat.sources[j].name = chat.relevantChunks[k].articleName
        /\ chat.sources[j].url = chat.relevantChunks[k].url
\* C22: a searchArticles call chooses its ranking mode once, from the chunk
\* collection as it stands after the bootstrap: if some chunk has an
\* embedding the call requests the query's embedding, once, and returns the
\* semantic ranking or, should the request fail, the fallback, never the
\* keyword ranking; if no chunk has an embedding the call requests no
\* embedding and returns the keyword ranking (nothing from an empty store).
C22_ModeChosenOnce ==
  [][\A q \in Searchers :
       searchCalls'[q] # searchCalls[q] =>
         IF searchCalls[q].pc # "embedding"
         THEN LET any == \E k \in 1..Len(articleChunks') : HasEmbedding(articleChunks'[k])
              IN  /\ any => searchCalls'[q].pc = "embedding"
                  /\ ~any => /\ searchCalls'[q].pc = "returned"
                             /\ searchCalls'[q].mode =
                                  IF Len(articleChunks') = 0 THEN "none" ELSE "keyword"
         ELSE /\ searchCalls'[q].pc = "returned"
              /\ searchCalls'[q].mode \in {"semantic", "fallback"}]_vars

\* A search on a store whose chunks all lack an embedding returned chunks by
\* keyword ranking, while a chunk stored since has an embedding.
C22_Witness ==
  /\ searchCalls["q1"].pc = "returned"
  /\ searchCalls["q1"].mode = "keyword"
  /\ Len(searchCalls["q1"].result) > 0
  /\ \E k \in 1..Len(articleChunks) : HasEmbedding(articleChunks[k])
\* C23: a searchArticles call that finds the chunk collection non-empty
\* leaves it as it is and starts no Demo Seeder run; a call that finds it
\* empty leaves it empty or replaces it by the chunks of the snapshot, and
\* starts a Demo Seeder run exactly if the collection is empty after that.
C23_BootstrapOrder ==
  [][\A q \in Searchers :
       (searchCalls'[q] # searchCalls[q] /\ searchCalls[q].pc # "embedding") =>
         IF Len(articleChunks) > 0
         THEN articleChunks' = articleChunks /\ seeders' = seeders
         ELSE /\ \/ articleChunks' = << >>
                 \/ /\ storageFile.exists
                    /\ articleChunks' = JSONparse(storageFile.data)
              /\ (seeders' # seeders) <=> (Len(articleChunks') = 0)
              /\ \A d \in SeederRuns :
                   seeders'[d] # seeders[d] =>
                     seeders[d].pc = "idle" /\ seeders'[d].pc = "embedding"]_vars

\* A search found the collection empty, loaded the snapshot that an
\* ingestion before the reset had written, and started no Demo Seeder run.
C23_Witness ==
  /\ searchCalls["q1"].pc \in {"embedding", "returned"}
  /\ searchCalls["q1"].emptyAtCall
  /\ ~searchCalls["q1"].seeded
  /\ articleStore = << >>
  /\ Len(articleChunks) > 0
  /\ \A d \in SeederRuns : seeders[d].pc = "idle"
\* C24: a storeArticle call requests the embedding of segment 0 first, and
\* each answer, an embedding or a failure, is followed by the request for the
\* next segment or, after the last segment, by the return: one request per
\* segment, in index order, one at a time, a failed one never repeated.
C24_OneRequestPerSegment ==
  [][\A p \in StoreCallers :
       storeCalls'[p] # storeCalls[p] =>
         IF storeCalls[p].pc # "embedding"
         THEN storeCalls'[p].pc = "embedding" => storeCalls'[p].i = 0
         ELSE /\ storeCalls'[p].i = storeCalls[p].i + 1
              /\ storeCalls'[p].textChunks = storeCalls[p].textChunks
              /\ IF storeCalls[p].i + 1 < Len(storeCalls[p].textChunks)
                 THEN storeCalls'[p].pc = "embedding"
                 ELSE storeCalls'[p].pc = "returned"]_vars

\* A call returned after the request for one segment failed and the request
\* for a later segment was made and answered with an embedding.
C24_Witness ==
  /\ storeCalls["s1"].pc = "returned"
  /\ storeCalls["s1"].i = Len(storeCalls["s1"].textChunks)
  /\ \E f \in storeCalls["s1"].failed :
       \E k \in 1..Len(storeCalls["s1"].chunks) : storeCalls["s1"].chunks[k].chunkIndex > f
\* C25 (as the specification states it): for any text and token counts,
\* every segment chunkText returns after the first comes from a window that
\* ends after every earlier window's end, so that it covers a character no
\* earlier window covered and does not lie inside the segment before it.
C25_SegmentsCoverNewText ==
  chunker.pc = "returned" =>
    \A k \in 2..Len(chunker.windows) :
      chunker.windows[k].kept =>
        \A j \in 1..(k - 1) : WindowTo(chunker.windows[k]) > WindowTo(chunker.windows[j])
\* C26 (as the specification states it): once clearArticles has completed,
\* and as long as the article is not ingested again, the chunk collection
\* holds no chunk of an article stored before the reset and no search
\* returns one.  (In SpecBoot the one ingestion precedes the reset: the reset
\* has happened exactly if the call has returned and the index is empty.)
C26_ClearIsFullReset ==
  (storeCalls["s1"].pc = "returned" /\ articleStore = << >>) =>
    /\ \A k \in 1..Len(articleChunks) :
         articleChunks[k].articleId # storeCalls["s1"].article.id
    /\ (searchCalls["q1"].pc = "returned" /\ searchCalls["q1"].emptyAtCall) =>
         \A k \in 1..Len(searchCalls["q1"].result) :
           searchCalls["q1"].result[k].articleId # storeCalls["s1"].article.id
\* C27 (as the specification states it): under every interleaving of
\* searchArticles, storeArticle, clearArticles and the Demo Seeder's embedding
\* calls, when a Demo Seeder run appends a demo chunk the chunk collection
\* holds no chunk that storeArticle created.
C27_DemoChunksOnlyIntoEmptyStore ==
  [][\A d \in SeederRuns :
       (/\ seeders[d].pc = "embedding"
        /\ seeders'[d] # seeders[d]
        /\ Len(articleChunks') = Len(articleChunks) + 1)
       => \A k \in 1..Len(articleChunks) : articleChunks[k].articleId \notin ArticleIds]_vars
\* C28 (as the specification states it): for every query, an empty one and
\* one with white space at its ends included, each chunk a keyword-mode
\* search returns is related to the query: its title or its body contains
\* the lower-cased query or one of the query's non-empty words, which is to
\* say that its reference score is not 0.
C28_KeywordResultsAreRelated ==
  \A q \in Searchers :
    (searchCalls[q].pc = "returned" /\ searchCalls[q].mode = "keyword") =>
      \A k \in 1..Len(searchCalls[q].result) :
        RefScoreOf(searchCalls[q].query, searchCalls[q].result[k]) > 0
\* No storeArticle or searchArticles call and no Demo Seeder run is under way.
AllCallsCompleted ==
  /\ \A p \in StoreCallers : storeCalls[p].pc # "embedding"
  /\ \A q \in Searchers : searchCalls[q].pc # "embedding"
  /\ \A d \in SeederRuns : seeders[d].pc = "idle"

\* C29 (as the specification states it): whenever the calls made so far
\* have all completed, the chunks of every article in the article index are,
\* in order, the chunks of the chunk collection that carry its id.
C29_IndexAgreesWithCollection ==
  AllCallsCompleted =>
    \A id \in DOMAIN articleStore : articleStore[id].chunks = ChunksOf(articleChunks, id)
\* C30 (as the specification states it): in every state in which a chat or
\* ingest request that the UI started has not completed, isLoading is true,
\* whether the request was started by a click or by Enter in the input.
C30_LoadingWhileRequestInFlight ==
  Len(app.requests) > 0 => app.isLoading
====
